---- MODULE Spec2Model ----
(***************************************************************************)
(* Owl Bot code-propagation engine: the Firestore-backed configs store     *)
(* (storeConfigs / getConfigs as used by refreshConfigs), the history      *)
(* scanner (scanGoogleapisGenAndCreatePullRequests / copyNewCode) and      *)
(* copyCode with its dedup check copyExists.                               *)
(*                                                                         *)
(* Four specifications share the variables:                                *)
(*   SpecStore  concurrent refreshConfigs runs on the configs store,       *)
(*   SpecScan   runs of the scan of the source history,                    *)
(*   SpecCopy   concurrent copyCode runs and other actors on GitHub,       *)
(*   SpecLock   concurrent createOnePullRequestForUpdatingLock calls.      *)
(* Git commands and GitHub requests are collaborators: a step that uses    *)
(* them either has its documented effect or throws.  A Firestore           *)
(* transaction is one atomic step.                                         *)
(***************************************************************************)
EXTENDS Integers, Sequences, FiniteSets, TLC

(***************************************************************************)
(* Bounds of the model.                                                    *)
(***************************************************************************)
\* Number of refreshConfigs calls made in all.
MaxRuns == 3
\* Number of commits in the history of the source repository.
HistoryLen == 3
\* Number of copyCode calls made in all.
MaxCopies == 2
\* Number of markers that other actors leave in the destination repos.
MaxOther == 1
\* Number of runs of the scan, one after the other.
MaxScans == 2
\* Number of createOnePullRequestForUpdatingLock calls made in all.
MaxLockCalls == 3
\* Publications of a post processor image that are handled.
MaxPubs == 2
\* Rules in the deep-copy-regex list of a repo's yaml.
MaxRules == 2
\* Changed file paths in one call of findReposAffectedByFileChanges.
MaxPaths == 2
\* Characters in a source pattern given to makePatternMatchAllSubdirs.
MaxPatternLen == 4
\* Segments in a candidate path given to a matcher.
MaxPathDepth == 4

\* The number of rules of copy-dirs in a configuration.
MaxCopyDirs == 2
\* The number of repos that octokit.repos.listForOrg returns.
MaxListed == 3

(***************************************************************************)
(* Values.                                                                 *)
(***************************************************************************)
Repos == {"googleapis/r1", "googleapis/r2"}
Writers == {"w1", "w2"}
\* Commit hashes of a destination repo's default branch, as recorded in the
\* commithash field of a stored record.
ConfigHashes == {"a", "b", "c"}
\* JavaScript null, as passed for replaceCommithash when no record was read.
Null == "null"
\* A key that an object does not have.
Absent == "absent"
Locks == {"L1"}
Yamls == {"Y1"}
Branches == {"main"}
InstallationIds == {5}
\* Commits of the source repository, numbered from the oldest.
Commits == 1..HistoryLen
\* The empty string, which is not the hash of a commit.
EmptyHash == 0
\* The order in which the configs store lists repos.
ReposOrder == <<"googleapis/r1", "googleapis/r2">>
Procs == {"p1", "p2"}
\* The source commits that the copy-code command is run for.
CopyHashes == {1}
\* The source commits that other actors mention in the destination repos.
OtherHashes == {1, 2}
\* The directory the process runs in.
ProcessCwd == "process.cwd()"
\* The repository named in the url that copyCode sets for origin.
GoogleapisGen == "googleapis/googleapis-gen"
\* per_page of the pulls and issues listings.
PerPage == 100
\* Where the marker of an earlier propagation is.
MarkerKinds == {"commit", "search", "pull", "issue"}

\* The Configs objects that refreshConfigs can build: lock and yaml are keys
\* that are present only when the file was found and parsed.  The commit hash
\* is one field here; the store spells it commithash, handlers.ts commitHash.
Configs == [commithash : ConfigHashes, branchName : Branches,
            installationId : InstallationIds,
            lock : Locks \cup {Absent}, yaml : Yamls \cup {Absent}]

NoConfigs == [commithash |-> Absent, branchName |-> Absent, installationId |-> 0,
              lock |-> Absent, yaml |-> Absent]

\* A Firestore document snapshot: doc.exists and doc.data().
NoDoc == [exists |-> FALSE, data |-> NoConfigs]
DocOf(configs) == [exists |-> TRUE, data |-> configs]

\* Records that an earlier deployment left in the owl-bot-yamls collection.
SeedDocs == {NoDoc,
             DocOf([commithash |-> "a", branchName |-> "main", installationId |-> 5,
                    lock |-> "L1", yaml |-> "Y1"])}

VARIABLES
  yamls,      \* the owl-bot-yamls collection: repo -> document
  wpc,        \* writer -> position in scanGithubForConfigs/refreshConfigs
  wrepo,      \* writer -> repo it refreshes
  wcfg,       \* writer -> the document it read with getConfigs
  wnew,       \* writer -> the newConfigs it built
  wres,       \* writer -> outcome of its storeConfigs call
  wruns,      \* writer -> number of refreshes started
  raced,      \* two storeConfigs calls on one repo were pending together
  last,       \* the last storeConfigs call: arguments, store before, outcome
  won         \* repo -> the configs of the last storeConfigs call that
              \* returned true

storeVars == <<yamls, wpc, wrepo, wcfg, wnew, wres, wruns, raced, last, won>>

VARIABLES
  commitMsgs,   \* <<repo, hash>>: a commit of repo's default branch mentions hash
  searchIndex,  \* <<repo, hash>>: the issue/pull-request search finds hash in repo
  pulls,        \* repo -> open pull requests, newest first
  issues        \* repo -> open issues, newest first

githubVars == <<commitMsgs, searchIndex, pulls, issues>>

VARIABLES
  cloneDepth,   \* the cloneDepth argument of the scan
  affects,      \* source commit -> repos findReposAffectedByFileChanges returns
  scanPc,       \* position of the scan: "start", "scanning", "applying", "done"
  commitHashes, \* the split output of git log
  idx,          \* index in commitHashes of the next commit to examine
  todoStack,    \* the stack of Todos
  examined,     \* log of the loop iterations made
  stopped,      \* the loop hit its break
  applied,      \* the copyCodeAndCreatePullRequest calls made, in order
  scanRun,      \* the number of the run
  prevOutcome,  \* how the run before this one ended
  failures,     \* the errors thrown in this run
  atStart       \* the pull requests, issues and pushes when the run started

scanVars == <<cloneDepth, affects, scanPc, commitHashes, idx, todoStack,
              examined, stopped, applied, scanRun, prevOutcome, failures,
              atStart>>

VARIABLES
  cpc,          \* process -> position in copyCode
  cargs,        \* process -> its dest-repo and source-repo-commit-hash
  cout,         \* process -> how its copyCode call ended
  cfinal,       \* process -> result of the copyExists call made after the commit
  cruns,        \* process -> number of copyCode calls started
  raceSeen,     \* process -> another propagation of its pair completed between
                \*            its first check and its final check
  pushLog,      \* the git push commands executed
  issueReqs     \* the issues.create requests that are in flight

copyVars == <<cpc, cargs, cout, cfinal, cruns, raceSeen, pushLog, issueReqs>>

VARIABLES
  lockUpdatePrs, \* the owl-bot-lock-update-prs collection: key -> pull request
  lockPulls,     \* repo -> the open pull requests that update the lock file
  prNumbers,     \* repo -> the number of the last pull request opened
  lpc,           \* writer -> position in createOnePullRequestForUpdatingLock
  largs,         \* writer -> its repoFull and lock
  lnew,          \* writer -> its newPullRequest
  lret,          \* writer -> what its call resolved to, or that it rejected
  lstage,        \* writer -> the step of its call that was made last
  lcalls,        \* the number of calls started
  lraced,        \* two calls for one triple were past their find together
  lastRec,       \* the last recordPullRequestForUpdatingLock call
  lcaller        \* the writer whose call started last

lockVars == <<lockUpdatePrs, lockPulls, prNumbers, lpc, largs, lnew, lret,
              lstage, lcalls, lraced, lastRec, lcaller>>

VARIABLES
  pubs,      \* the number of publications handled
  pubCalls,  \* the createOnePullRequestForUpdatingLock calls that were made
             \* and whose find request is not answered yet
  lastPub    \* the last onPostProcessorPublished call

pubVars == <<pubs, pubCalls, lastPub>>

VARIABLES
  fin,   \* the arguments of the function that is called
  fout,  \* what its calls have returned or left behind
  fpc    \* the number of calls made

fnVars == <<fin, fout, fpc>>

vars == <<storeVars, githubVars, scanVars, copyVars, lockVars, pubVars,
          fnVars>>

(***************************************************************************)
(* FirestoreConfigsStore                                                   *)
(***************************************************************************)

\* Transaction.update(docRef, configs): writes the keys that configs has and
\* leaves every other field of the document as it was.
TransactionUpdate(doc, configs) ==
  DocOf([commithash |-> configs.commithash,
         branchName |-> configs.branchName,
         installationId |-> configs.installationId,
         lock |-> IF configs.lock = Absent THEN doc.data.lock ELSE configs.lock,
         yaml |-> IF configs.yaml = Absent THEN doc.data.yaml ELSE configs.yaml])

\* The condition of the if in the transaction of storeConfigs.
StoreCondition(doc, replaceCommithash) ==
  \/ doc.exists /\ doc.data.commithash = replaceCommithash
  \/ ~doc.exists /\ replaceCommithash = Null

\* What the storeConfigs promise settles to.  Transaction.update requires the
\* document to exist: on a missing document the commit fails and
\* runTransaction rejects.
StoreConfigsResult(doc, replaceCommithash) ==
  IF StoreCondition(doc, replaceCommithash)
    THEN IF doc.exists THEN "true" ELSE "threw"
    ELSE "false"

StoreConfigsDocAlways(doc, configs, replaceCommithash) ==
  IF doc.exists THEN TransactionUpdate(doc, configs) ELSE doc

\* The document after storeConfigs.
StoreConfigsDoc(doc, configs, replaceCommithash) ==
  IF StoreConfigsResult(doc, replaceCommithash) = "true"
    THEN TransactionUpdate(doc, configs)
    ELSE doc

\* getConfigs(repo)
GetConfigs(repo) == yamls[repo]

NoCall == [called |-> FALSE, repo |-> "googleapis/r1", configs |-> NoConfigs,
           replace |-> Null, prev |-> [r \in Repos |-> NoDoc], result |-> "none"]

(***************************************************************************)
(* scanGithubForConfigs / refreshConfigs, one writer per concurrent run    *)
(***************************************************************************)

\* null, whatever was read.
ReplaceCommithashNull(doc) == Null

\* configs?.commitHash ?? null
ReplaceCommithashOf(doc) == IF doc.exists THEN doc.data.commithash ELSE Null

\* scanGithubForConfigs loads the current configs of a repo from the store.
LoadConfigs(w, r) ==
  /\ wpc[w] = "idle"
  /\ wruns["w1"] + wruns["w2"] < MaxRuns
  /\ wpc' = [wpc EXCEPT ![w] = "loaded"]
  /\ wrepo' = [wrepo EXCEPT ![w] = r]
  /\ wcfg' = [wcfg EXCEPT ![w] = GetConfigs(r)]
  /\ wnew' = [wnew EXCEPT ![w] = NoConfigs]
  /\ wres' = [wres EXCEPT ![w] = "none"]
  /\ wruns' = [wruns EXCEPT ![w] = @ + 1]
  /\ raced' = FALSE
  /\ UNCHANGED <<yamls, last, won>>
  /\ UNCHANGED <<githubVars, scanVars, copyVars, lockVars, pubVars, fnVars>>

\* refreshConfigs finds the stored configs up to date and returns.
RefreshUpToDate(w) ==
  /\ wpc[w] = "loaded"
  /\ \E commitHash \in ConfigHashes, defaultBranch \in Branches :
       /\ wcfg[w].exists
       /\ wcfg[w].data.commithash = commitHash
       /\ wcfg[w].data.branchName = defaultBranch
  /\ wpc' = [wpc EXCEPT ![w] = "idle"]
  /\ wres' = [wres EXCEPT ![w] = "uptodate"]
  /\ wcfg' = [wcfg EXCEPT ![w] = NoDoc]
  /\ UNCHANGED <<yamls, wrepo, wnew, wruns, raced, last, won>>
  /\ UNCHANGED <<githubVars, scanVars, copyVars, lockVars, pubVars, fnVars>>

\* refreshConfigs reads the head commit of the default branch and the two
\* config files at that commit, and builds newConfigs.
RefreshFetch(w) ==
  /\ wpc[w] = "loaded"
  /\ \E commitHash \in ConfigHashes, defaultBranch \in Branches,
        installationId \in InstallationIds,
        lock \in Locks \cup {Absent}, yaml \in Yamls \cup {Absent} :
       /\ ~(/\ wcfg[w].exists
            /\ wcfg[w].data.commithash = commitHash
            /\ wcfg[w].data.branchName = defaultBranch)
       /\ wnew' = [wnew EXCEPT ![w] =
                     [commithash |-> commitHash, branchName |-> defaultBranch,
                      installationId |-> installationId,
                      lock |-> lock, yaml |-> yaml]]
  /\ wpc' = [wpc EXCEPT ![w] = "fetched"]
  /\ raced' = (raced \/ \E o \in Writers \ {w} :
                          wpc[o] = "fetched" /\ wrepo[o] = wrepo[w])
  /\ UNCHANGED <<yamls, wrepo, wcfg, wres, wruns, last, won>>
  /\ UNCHANGED <<githubVars, scanVars, copyVars, lockVars, pubVars, fnVars>>

\* refreshConfigs stores the new configs back: one storeConfigs transaction.
RefreshStore(w) ==
  /\ wpc[w] = "fetched"
  /\ LET r == wrepo[w]
         replace == ReplaceCommithashOf(wcfg[w])
         res == StoreConfigsResult(yamls[r], replace)
     IN /\ yamls' = [yamls EXCEPT ![r] = StoreConfigsDoc(@, wnew[w], replace)]
        /\ wres' = [wres EXCEPT ![w] = res]
        /\ last' = [called |-> TRUE, repo |-> r, configs |-> wnew[w],
                    replace |-> replace, prev |-> yamls, result |-> res]
        /\ won' = IF res = "true"
                    THEN [won EXCEPT ![r] = wnew[w]]
                    ELSE won
  /\ wpc' = [wpc EXCEPT ![w] = "stored"]
  /\ UNCHANGED <<wrepo, wcfg, wnew, wruns, raced>>
  /\ UNCHANGED <<githubVars, scanVars, copyVars, lockVars, pubVars, fnVars>>

\* refreshConfigs logs the outcome and returns; a rejected storeConfigs
\* propagates out of refreshConfigs.
RefreshReturn(w) ==
  /\ wpc[w] = "stored"
  /\ wpc' = [wpc EXCEPT ![w] = "idle"]
  /\ wcfg' = [wcfg EXCEPT ![w] = NoDoc]
  /\ wnew' = [wnew EXCEPT ![w] = NoConfigs]
  /\ UNCHANGED <<yamls, wrepo, wres, wruns, raced, last, won>>
  /\ UNCHANGED <<githubVars, scanVars, copyVars, lockVars, pubVars, fnVars>>

(***************************************************************************)
(* The destination repositories on GitHub, as copyExists queries them      *)
(***************************************************************************)

\* The text of a pull request's or issue's body: null, or a string of which
\* the model keeps the source commit hashes that occur in it.
NullBody == [isNull |-> TRUE, refs |-> {}]
BodyWith(hashes) == [isNull |-> FALSE, refs |-> hashes]

\* body?.indexOf(sourceCommitHash) ?? -1, compared with 0: the empty string
\* occurs at position 0 of every string.
IndexOfFound(body, sourceCommitHash) ==
  /\ ~body.isNull
  /\ (sourceCommitHash = EmptyHash \/ sourceCommitHash \in body.refs)

FirstN(list, n) == SubSeq(list, 1, IF Len(list) < n THEN Len(list) ELSE n)

\* What the requests of copyExists see of the destination repos.
Github == [commitMsgs |-> commitMsgs, searchIndex |-> searchIndex,
           pulls |-> pulls, issues |-> issues]

\* octokit.search.commits({q}).data.total_count > 0
FoundCommits(gh, destRepo, sourceCommitHash) ==
  <<destRepo, sourceCommitHash>> \in gh.commitMsgs

\* octokit.search.issuesAndPullRequests({q}).data.items is not empty
FoundItems(gh, destRepo, sourceCommitHash) ==
  <<destRepo, sourceCommitHash>> \in gh.searchIndex

\* octokit.pulls.list({owner, repo, per_page: 100}): some body has the hash
FoundInPulls(gh, destRepo, sourceCommitHash) ==
  \E i \in DOMAIN FirstN(gh.pulls[destRepo], PerPage) :
    IndexOfFound(gh.pulls[destRepo][i].body, sourceCommitHash)

\* octokit.issues.list({owner, repo, per_page: 100}): some body has the hash
FoundInIssues(gh, destRepo, sourceCommitHash) ==
  \E i \in DOMAIN FirstN(gh.issues[destRepo], PerPage) :
    IndexOfFound(gh.issues[destRepo][i].body, sourceCommitHash)

QueryOrderNoIssues == <<"search.commits", "search.issuesAndPullRequests",
                        "pulls.list">>

\* The requests of copyExists in the order of the code.
QueryOrder == <<"search.commits", "search.issuesAndPullRequests",
                "pulls.list", "issues.list">>

\* Whether a request comes back with the hash.
Positive(gh, query, destRepo, sourceCommitHash) ==
  CASE query = "search.commits" -> FoundCommits(gh, destRepo, sourceCommitHash)
    [] query = "search.issuesAndPullRequests" ->
         FoundItems(gh, destRepo, sourceCommitHash)
    [] query = "pulls.list" -> FoundInPulls(gh, destRepo, sourceCommitHash)
    [] query = "issues.list" -> FoundInIssues(gh, destRepo, sourceCommitHash)

CopyExistsAllQueries(gh, destRepo, sourceCommitHash, n, made) ==
  [queries |-> QueryOrder,
   returns |-> \E i \in DOMAIN QueryOrder :
                 Positive(gh, QueryOrder[i], destRepo, sourceCommitHash)]

RECURSIVE CopyExistsFrom(_, _, _, _, _)
\* copyExists from its n-th request on: each request is awaited, a positive
\* one returns true, and after the last one the function returns false.
CopyExistsFrom(gh, destRepo, sourceCommitHash, n, made) ==
  IF n > Len(QueryOrder) THEN [queries |-> made, returns |-> FALSE]
  ELSE IF Positive(gh, QueryOrder[n], destRepo, sourceCommitHash)
    THEN [queries |-> Append(made, QueryOrder[n]), returns |-> TRUE]
    ELSE CopyExistsFrom(gh, destRepo, sourceCommitHash, n + 1,
                        Append(made, QueryOrder[n]))

\* One call of copyExists: the requests it makes and what it returns.
CopyExistsCall(gh, destRepo, sourceCommitHash) ==
  CopyExistsFrom(gh, destRepo, sourceCommitHash, 1, <<>>)

\* What the promise returned by copyExists resolves to.
CopyExists(destRepo, sourceCommitHash) ==
  CopyExistsCall(Github, destRepo, sourceCommitHash).returns

(***************************************************************************)
(* scanGoogleapisGenAndCreatePullRequests / copyNewCode                    *)
(***************************************************************************)

Min(a, b) == IF a < b THEN a ELSE b

\* git log -<cloneDepth> --format=%H, split at the line ends: the newest
\* commits first, and the empty string that follows the last line end.
GitLog(depth) ==
  LET n == Min(depth, HistoryLen)
  IN [i \in 1..(n + 1) |-> IF i <= n THEN HistoryLen + 1 - i ELSE EmptyHash]

Todo(repo, commitHash) == [repo |-> repo, commitHash |-> commitHash]

RECURSIVE Reverse(_)
\* Array.prototype.reverse
Reverse(s) == IF s = <<>> THEN <<>> ELSE Append(Reverse(Tail(s)), Head(s))

NotOfAwaited(resolvesTo) == ~resolvesTo

\* !copyExists(...): copyExists is async and the call is not awaited, so the
\* operand is a Promise object, which is truthy whatever it resolves to.
NotOfPromise(resolvesTo) == FALSE

\* The repos of a commit in the order findReposAffectedByFileChanges lists them.
ReposList(repos) == SelectSeq(ReposOrder, LAMBDA r : r \in repos)

\* The Todos that the inner loop pushes for one commit.
Pushes(repos, commitHash) ==
  LET kept == SelectSeq(ReposList(repos),
                        LAMBDA r : NotOfPromise(CopyExists(r, commitHash)))
  IN [i \in DOMAIN kept |-> Todo(kept[i], commitHash)]

\* Clone the source repo and collect the history of commit hashes.
StartScan ==
  /\ scanPc = "start"
  /\ commitHashes' = GitLog(cloneDepth)
  /\ idx' = 1
  /\ scanPc' = "scanning"
  /\ atStart' = <<pulls, issues, pushLog>>
  /\ UNCHANGED <<cloneDepth, affects, todoStack, examined, stopped, applied,
                 scanRun, prevOutcome, failures>>
  /\ UNCHANGED <<lockVars, pubVars, storeVars, githubVars, copyVars, fnVars>>

\* One iteration of the loop over commitHashes, up to its break or its end.
\* The files touched by the empty hash are whatever getFilesModifiedBySha
\* makes of it.
ExamineCommit ==
  /\ scanPc = "scanning"
  /\ idx <= Len(commitHashes)
  /\ LET commitHash == commitHashes[idx]
     IN \E repos \in (IF commitHash = EmptyHash THEN SUBSET Repos
                                                ELSE {affects[commitHash]}) :
          LET stackSize == Len(todoStack)
              newStack == todoStack \o Pushes(repos, commitHash)
              break == Cardinality(repos) > 0 /\ Len(newStack) = stackSize
          IN /\ todoStack' = newStack
             /\ examined' = Append(examined,
                  [commitHash |-> commitHash, repos |-> repos,
                   exists |-> {r \in repos : CopyExists(r, commitHash)}])
             /\ stopped' = break
             /\ idx' = idx + 1
             /\ scanPc' = IF break \/ idx = Len(commitHashes)
                            THEN "applying" ELSE "scanning"
  /\ UNCHANGED <<cloneDepth, affects, commitHashes, applied, scanRun,
                 prevOutcome, failures, atStart>>
  /\ UNCHANGED <<lockVars, pubVars, storeVars, githubVars, copyVars, fnVars>>

\* A git command, getFilesModifiedBySha or the configs store throws while a
\* commit is examined: the loop has no try, so the scan rejects.
ExamineThrows ==
  /\ scanPc = "scanning"
  /\ idx <= Len(commitHashes)
  /\ failures' = failures + 1
  /\ scanPc' = "aborted"
  /\ UNCHANGED <<cloneDepth, affects, commitHashes, idx, todoStack, examined,
                 stopped, applied, scanRun, prevOutcome, atStart>>
  /\ UNCHANGED <<lockVars, pubVars, storeVars, githubVars, copyVars, fnVars>>

\* The scan is run again over the same history and the same stored configs.
RerunScan ==
  /\ scanPc \in {"done", "aborted"}
  /\ scanRun < MaxScans
  /\ scanRun' = scanRun + 1
  /\ prevOutcome' = scanPc
  /\ scanPc' = "start"
  /\ commitHashes' = <<>>
  /\ idx' = 1
  /\ todoStack' = <<>>
  /\ examined' = <<>>
  /\ stopped' = FALSE
  /\ applied' = <<>>
  /\ failures' = 0
  /\ UNCHANGED <<cloneDepth, affects, atStart>>
  /\ UNCHANGED <<lockVars, pubVars, storeVars, githubVars, copyVars, fnVars>>

(***************************************************************************)
(* copyCode                                                                *)
(***************************************************************************)

NoArgs == [destRepo |-> "googleapis/r1", hash |-> EmptyHash]

\* destBranch = 'owl-bot-' + uuidv4(): a fresh name for every call.
DestBranch(p) == <<"owl-bot", p, cruns[p]>>

PullRequest(body, head, base, by, hash) ==
  [body |-> body, head |-> head, base |-> base, by |-> by, hash |-> hash]

Issue(body, by) == [body |-> body, by |-> by]

\* The copyCode call that a process is in, or was in last.
CallOf(p) == <<p, cruns[p]>>

IssuesCreateNone(p) == {}

\* octokit.issues.create({owner, repo, title, body}) of the catch block: the
\* body has the source link, which ends with the hash.
IssuesCreate(p) ==
  {[repo |-> cargs[p].destRepo,
    issue |-> Issue(BodyWith({cargs[p].hash}), CallOf(p))]}

\* octokit.pulls.create({owner, repo, head, base}): neither a title nor a
\* body is passed.
PullsCreate(p) ==
  PullRequest(NullBody, DestBranch(p), "main", p, cargs[p].hash)

\* The processes that have passed their first check for the pair and have
\* not yet made their final check.
BetweenChecks(r, h) ==
  {p \in Procs : /\ cpc[p] \in {"checked", "committed"}
                 /\ cargs[p] = [destRepo |-> r, hash |-> h]}

\* The copyCode calls started so far.
CopyCalls == cruns["p1"] + cruns["p2"]

\* copyCode is called; it gets an octokit and makes its first check.
FirstCheck(p, r, h) ==
  /\ cpc[p] = "idle"
  /\ CopyCalls < MaxCopies
  /\ cruns' = [cruns EXCEPT ![p] = @ + 1]
  /\ cargs' = [cargs EXCEPT ![p] = [destRepo |-> r, hash |-> h]]
  /\ cfinal' = [cfinal EXCEPT ![p] = "none"]
  /\ raceSeen' = [raceSeen EXCEPT ![p] = FALSE]
  /\ IF CopyExists(r, h)
       THEN /\ cout' = [cout EXCEPT ![p] = "exists"]
            /\ cpc' = [cpc EXCEPT ![p] = "idle"]
       ELSE /\ cout' = [cout EXCEPT ![p] = "none"]
            /\ cpc' = [cpc EXCEPT ![p] = "checked"]
  /\ UNCHANGED <<pushLog, issueReqs>>
  /\ UNCHANGED <<lockVars, pubVars, storeVars, githubVars, scanVars, fnVars>>

\* Clone both repos, check out the hash and the new branch, load
\* .github/.OwlBot.yaml; on a missing or defective file send the request that
\* opens an issue and, without awaiting it, return.
LoadYamlFails(p) ==
  /\ cpc[p] = "checked"
  /\ issueReqs' = issueReqs \cup IssuesCreate(p)
  /\ cout' = [cout EXCEPT ![p] = "nocfg"]
  /\ cpc' = [cpc EXCEPT ![p] = "idle"]
  /\ UNCHANGED <<cargs, cfinal, cruns, raceSeen, pushLog>>
  /\ UNCHANGED githubVars
  /\ UNCHANGED <<lockVars, pubVars, storeVars, scanVars, fnVars>>

\* GitHub serves an issues.create request: the issue is open on the repo.
IssueLands ==
  \E req \in issueReqs :
    /\ issueReqs' = issueReqs \ {req}
    /\ issues' = [issues EXCEPT ![req.repo] = <<req.issue>> \o @]
    /\ UNCHANGED <<commitMsgs, searchIndex, pulls>>
    /\ UNCHANGED <<cpc, cargs, cout, cfinal, cruns, raceSeen, pushLog>>
    /\ UNCHANGED <<lockVars, pubVars, storeVars, scanVars, fnVars>>

\* Clone, check out, load the yaml, copyDirs, and commit to the new branch of
\* the destination checkout with the Source-Link trailer.
CopyAndCommit(p) ==
  /\ cpc[p] = "checked"
  /\ cpc' = [cpc EXCEPT ![p] = "committed"]
  /\ UNCHANGED <<cargs, cout, cfinal, cruns, raceSeen, pushLog, issueReqs>>
  /\ UNCHANGED <<lockVars, pubVars, storeVars, githubVars, scanVars, fnVars>>

\* Refresh the token and check for an existing copy one more time.
FinalCheck(p) ==
  /\ cpc[p] = "committed"
  /\ IF CopyExists(cargs[p].destRepo, cargs[p].hash)
       THEN /\ cfinal' = [cfinal EXCEPT ![p] = "true"]
            /\ cout' = [cout EXCEPT ![p] = "collision"]
            /\ cpc' = [cpc EXCEPT ![p] = "idle"]
       ELSE /\ cfinal' = [cfinal EXCEPT ![p] = "false"]
            /\ cpc' = [cpc EXCEPT ![p] = "verified"]
            /\ UNCHANGED cout
  /\ UNCHANGED <<cargs, cruns, raceSeen, pushLog, issueReqs>>
  /\ UNCHANGED <<lockVars, pubVars, storeVars, githubVars, scanVars, fnVars>>

\* octokit.repos.get, git remote set-url origin and git push origin: both
\* commands are run without a cwd option, and the url names googleapis-gen.
Push(p) ==
  /\ cpc[p] = "verified"
  /\ pushLog' = pushLog \cup {[by |-> p, cwd |-> ProcessCwd,
                              remote |-> GoogleapisGen,
                              branch |-> DestBranch(p)]}
  /\ cpc' = [cpc EXCEPT ![p] = "pushed"]
  /\ UNCHANGED <<cargs, cout, cfinal, cruns, raceSeen, issueReqs>>
  /\ UNCHANGED <<lockVars, pubVars, storeVars, githubVars, scanVars, fnVars>>

\* Create a pull request.
CreatePull(p) ==
  /\ cpc[p] = "pushed"
  /\ pulls' = [pulls EXCEPT ![cargs[p].destRepo] = <<PullsCreate(p)>> \o @]
  /\ cout' = [cout EXCEPT ![p] = "created"]
  /\ cpc' = [cpc EXCEPT ![p] = "idle"]
  /\ raceSeen' = [q \in Procs |->
                    raceSeen[q] \/ q \in BetweenChecks(cargs[p].destRepo,
                                                       cargs[p].hash)]
  /\ UNCHANGED <<cargs, cfinal, cruns, pushLog, issueReqs>>
  /\ UNCHANGED <<commitMsgs, searchIndex, issues>>
  /\ UNCHANGED <<lockVars, pubVars, storeVars, scanVars, fnVars>>

\* A git command or a request to GitHub fails: copyCode rejects.
CopyThrows(p) ==
  /\ cpc[p] \in {"checked", "committed", "verified", "pushed"}
  /\ cout' = [cout EXCEPT ![p] = "threw"]
  /\ cpc' = [cpc EXCEPT ![p] = "idle"]
  /\ UNCHANGED <<cargs, cfinal, cruns, raceSeen, pushLog, issueReqs>>
  /\ UNCHANGED <<lockVars, pubVars, storeVars, githubVars, scanVars, fnVars>>

(***************************************************************************)
(* The loop of the scan that applies the Todos                             *)
(***************************************************************************)

\* One call of the loop, run to its end with no other actor in between: the
\* first check, then the issue for a defective yaml (open by the time of the
\* next call), or the push and the pull request, or an error.
CopyCodeFor(st, todo, defective, throws) ==
  LET called == [st EXCEPT !.applied = Append(@, todo)]
      branch == <<"owl-bot", "scan", Len(called.applied)>>
  IN IF CopyExistsCall(st.gh, todo.repo, todo.commitHash).returns THEN called
     ELSE IF throws THEN [called EXCEPT !.threw = TRUE]
     ELSE IF todo.repo \in defective
       THEN [called EXCEPT !.gh.issues[todo.repo] =
               <<Issue(BodyWith({todo.commitHash}), "scan")>> \o @]
       ELSE [called EXCEPT
               !.pushLog = @ \cup {[by |-> "scan", cwd |-> ProcessCwd,
                                    remote |-> GoogleapisGen,
                                    branch |-> branch]},
               !.gh.pulls[todo.repo] =
                 <<PullRequest(NullBody, branch, "main", "scan",
                               todo.commitHash)>> \o @]

RECURSIVE ApplyTodos(_, _, _, _)
\* for (const todo of ...) await copyCodeAndCreatePullRequest(...): a call
\* that rejects ends the loop.  The repos in defective have no usable
\* .OwlBot.yaml, and the call numbered throwAt fails.
ApplyTodos(st, todos, defective, throwAt) ==
  IF todos = <<>> \/ st.threw THEN st
  ELSE ApplyTodos(CopyCodeFor(st, Head(todos), defective,
                              Len(st.applied) + 1 = throwAt),
                  Tail(todos), defective, throwAt)

\* Copy files beginning with the oldest commit hash: the loop over
\* todoStack.reverse() awaits each call before it makes the next.
ApplyQueue ==
  /\ scanPc = "applying"
  /\ \E defective \in SUBSET Repos, throwAt \in 0..Len(todoStack) :
       LET st == ApplyTodos([gh |-> Github, pushLog |-> pushLog,
                             applied |-> <<>>, threw |-> FALSE],
                            Reverse(todoStack), defective, throwAt)
       IN /\ applied' = st.applied
          /\ pulls' = st.gh.pulls
          /\ issues' = st.gh.issues
          /\ pushLog' = st.pushLog
          /\ failures' = IF st.threw THEN failures + 1 ELSE failures
          /\ scanPc' = IF st.threw THEN "aborted" ELSE "done"
  /\ UNCHANGED <<cloneDepth, affects, commitHashes, idx, todoStack, examined,
                 stopped, scanRun, prevOutcome, atStart>>
  /\ UNCHANGED <<commitMsgs, searchIndex>>
  /\ UNCHANGED <<cpc, cargs, cout, cfinal, cruns, raceSeen, issueReqs>>
  /\ UNCHANGED <<lockVars, pubVars, storeVars, fnVars>>

\* What the promise of the scan resolves to: the function is declared
\* Promise<void> and has no return statement, so it resolves to undefined,
\* written <<>>; a number n would be <<n>>.
ScanResolvesTo == <<>>

(***************************************************************************)
(* Other actors on the destination repos                                   *)
(***************************************************************************)

OtherItems(r) ==
  Cardinality({i \in DOMAIN pulls[r] : pulls[r][i].by = "other"}) + Len(issues[r])

OtherMarkers ==
  Cardinality(commitMsgs) + OtherItems("googleapis/r1") + OtherItems("googleapis/r2")

\* A commit that mentions the source hash lands on the default branch.
OtherCommits(r, h) ==
  /\ OtherMarkers < MaxOther
  /\ commitMsgs' = commitMsgs \cup {<<r, h>>}
  /\ raceSeen' = [q \in Procs |-> raceSeen[q] \/ q \in BetweenChecks(r, h)]
  /\ UNCHANGED <<searchIndex, pulls, issues>>
  /\ UNCHANGED <<cpc, cargs, cout, cfinal, cruns, pushLog, issueReqs>>
  /\ UNCHANGED <<lockVars, pubVars, storeVars, scanVars, fnVars>>

\* Someone opens a pull request whose body mentions the source hash.
OtherOpensPull(r, h) ==
  /\ OtherMarkers < MaxOther
  /\ pulls' = [pulls EXCEPT ![r] =
                 <<PullRequest(BodyWith({h}), <<"branch", "other", 0>>, "main",
                               "other", h)>> \o @]
  /\ raceSeen' = [q \in Procs |-> raceSeen[q] \/ q \in BetweenChecks(r, h)]
  /\ UNCHANGED <<commitMsgs, searchIndex, issues>>
  /\ UNCHANGED <<cpc, cargs, cout, cfinal, cruns, pushLog, issueReqs>>
  /\ UNCHANGED <<lockVars, pubVars, storeVars, scanVars, fnVars>>

\* What the bodies of the open pull requests and issues mention.
BodyRefs ==
  {<<r, h>> \in Repos \X Commits :
     \/ \E i \in DOMAIN pulls[r] : h \in pulls[r][i].body.refs
     \/ \E i \in DOMAIN issues[r] : h \in issues[r][i].body.refs}

\* The search index catches up with the pull requests and issues.
SearchIndexes ==
  /\ searchIndex # BodyRefs
  /\ searchIndex' = BodyRefs
  /\ UNCHANGED <<commitMsgs, pulls, issues>>
  /\ UNCHANGED <<lockVars, pubVars, storeVars, scanVars, copyVars, fnVars>>

(***************************************************************************)
(* The lock-update pull requests: FirestoreConfigsStore and                *)
(* createOnePullRequestForUpdatingLock                                     *)
(***************************************************************************)

\* Post processor images and their digests.
Images == {"gcr.io/post-processor"}
Digests == {"sha256:1", "sha256:2"}

\* An OwlBotLock: {docker: {image, digest}}.
OwlBotLock(image, digest) == [docker |-> [image |-> image, digest |-> digest]]
OwlBotLocks == {OwlBotLock(i, g) : i \in Images, g \in Digests}

\* The character that makeUpdateLockKey joins with; it occurs in no repo
\* name, image name or digest.
Separator == "U+2058"

\* [repo, lock.docker.image, lock.docker.digest].join(separator)
MakeUpdateLockKey(repo, lock) ==
  <<repo, Separator, lock.docker.image, Separator, lock.docker.digest>>

Keys == {MakeUpdateLockKey(r, l) : r \in Repos, l \in OwlBotLocks}

\* undefined: no document, no pull request.
NoPr == <<"undefined">>

\* `https://github.com/${repoFull}/pull/${prNumber}`
PullRequestUrl(repoFull, prNumber) ==
  <<"https://github.com", repoFull, "pull", prNumber>>

\* The pull request that a client of the store has opened in a repo.
ClientPullRequest(r) == PullRequestUrl(r, 9)

FindNothing(prs, repo, lock) == NoPr

\* findPullRequestForUpdatingLock(repo, lock)
FindPullRequestForUpdatingLock(prs, repo, lock) ==
  prs[MakeUpdateLockKey(repo, lock)]

\* What recordPullRequestForUpdatingLock resolves to: on an existing document
\* the transaction sets the new data and the argument is returned; on a
\* missing one got.data() is undefined, reading its pullRequestId throws and
\* the transaction rejects.
RecordResult(prs, repo, lock, pullRequestId) ==
  IF prs[MakeUpdateLockKey(repo, lock)] # NoPr THEN pullRequestId
  ELSE <<"threw">>

\* The collection after recordPullRequestForUpdatingLock.
RecordPrs(prs, repo, lock, pullRequestId) ==
  IF prs[MakeUpdateLockKey(repo, lock)] # NoPr
    THEN [prs EXCEPT ![MakeUpdateLockKey(repo, lock)] = pullRequestId]
    ELSE prs

NoRecordCall == [called |-> FALSE, repo |-> "googleapis/r1",
                 lock |-> OwlBotLock("gcr.io/post-processor", "sha256:1"),
                 id |-> NoPr, prev |-> [k \in Keys |-> NoPr],
                 result |-> NoPr]

RecordCall(repo, lock, id) ==
  [called |-> TRUE, repo |-> repo, lock |-> lock, id |-> id,
   prev |-> lockUpdatePrs,
   result |-> RecordResult(lockUpdatePrs, repo, lock, id)]

NoLockArgs == [repo |-> "googleapis/r1",
               lock |-> OwlBotLock("gcr.io/post-processor", "sha256:1")]

LockBranchFresh == <<"owl-bot-lock-", prNumbers>>

\* branch: 'owl-bot-lock-1' of the createPullRequest options.
LockBranch == "owl-bot-lock-1"

\* A client of the store calls recordPullRequestForUpdatingLock.
StoreRecords(repo, lock, id) ==
  /\ lockUpdatePrs' = RecordPrs(lockUpdatePrs, repo, lock, id)
  /\ lastRec' = RecordCall(repo, lock, id)
  /\ lastRec' # lastRec
  /\ UNCHANGED <<lockPulls, prNumbers, lpc, largs, lnew, lret, lstage, lcalls,
                 lraced, lcaller>>
  /\ UNCHANGED <<storeVars, githubVars, scanVars, copyVars, pubVars, fnVars>>

\* createOnePullRequestForUpdatingLock is called and looks for a recorded
\* pull request; it returns the one it finds.
FindOrCreate(w, repoFull, lock) ==
  /\ lpc[w] = "idle"
  /\ lcalls < MaxLockCalls
  /\ lcalls' = lcalls + 1
  /\ largs' = [largs EXCEPT ![w] = [repo |-> repoFull, lock |-> lock]]
  /\ lnew' = [lnew EXCEPT ![w] = NoPr]
  /\ lstage' = [lstage EXCEPT ![w] = "find"]
  /\ lcaller' = w
  /\ LET existingPullRequest ==
           FindPullRequestForUpdatingLock(lockUpdatePrs, repoFull, lock)
         others == {o \in Writers \ {w} :
                      /\ lpc[o] \in {"creating", "recording"}
                      /\ largs[o] = [repo |-> repoFull, lock |-> lock]}
     IN IF existingPullRequest # NoPr
          THEN /\ lret' = [lret EXCEPT ![w] = existingPullRequest]
               /\ lpc' = [lpc EXCEPT ![w] = "idle"]
               /\ UNCHANGED lraced
          ELSE /\ lret' = [lret EXCEPT ![w] = NoPr]
               /\ lpc' = [lpc EXCEPT ![w] = "creating"]
               /\ lraced' = (others # {})
  /\ UNCHANGED <<lockUpdatePrs, lockPulls, prNumbers, lastRec>>

\* A call made by a handler of a publication that is not modelled.
FindExisting(w, repoFull, lock) ==
  /\ FindOrCreate(w, repoFull, lock)
  /\ UNCHANGED <<storeVars, githubVars, scanVars, copyVars, pubVars, fnVars>>

\* createPullRequest of code-suggester with force and the branch name of the
\* options: the branch is made to hold the new lock file, and the call
\* resolves to the number of the open pull request of that branch, which is
\* opened when there is none (GitHub has one open pull request for a head).
CreateLockPull(w) ==
  /\ lpc[w] = "creating"
  /\ LET r == largs[w].repo
         open == {pr \in lockPulls[r] : pr.head = LockBranch}
         n == prNumbers[r] + 1
     IN IF open # {}
          THEN \E pr \in open :
                 /\ lockPulls' = [lockPulls EXCEPT ![r] =
                      (@ \ {pr}) \cup {[pr EXCEPT !.lock = largs[w].lock]}]
                 /\ lnew' = [lnew EXCEPT ![w] = PullRequestUrl(r, pr.number)]
                 /\ UNCHANGED prNumbers
          ELSE /\ lockPulls' = [lockPulls EXCEPT ![r] =
                    @ \cup {[number |-> n, head |-> LockBranch,
                             lock |-> largs[w].lock]}]
               /\ prNumbers' = [prNumbers EXCEPT ![r] = n]
               /\ lnew' = [lnew EXCEPT ![w] = PullRequestUrl(r, n)]
  /\ lpc' = [lpc EXCEPT ![w] = "recording"]
  /\ lstage' = [lstage EXCEPT ![w] = "create"]
  /\ UNCHANGED <<lockUpdatePrs, largs, lret, lcalls, lraced, lastRec, lcaller>>
  /\ UNCHANGED <<storeVars, githubVars, scanVars, copyVars, pubVars, fnVars>>

\* createPullRequest rejects, and so does the call.
CreateLockPullThrows(w) ==
  /\ lpc[w] = "creating"
  /\ lret' = [lret EXCEPT ![w] = <<"threw">>]
  /\ lpc' = [lpc EXCEPT ![w] = "idle"]
  /\ lstage' = [lstage EXCEPT ![w] = "create"]
  /\ UNCHANGED <<lockUpdatePrs, lockPulls, prNumbers, largs, lnew, lcalls,
                 lraced, lastRec, lcaller>>
  /\ UNCHANGED <<storeVars, githubVars, scanVars, copyVars, pubVars, fnVars>>

\* await recordPullRequestForUpdatingLock(repoFull, lock, newPullRequest);
\* return newPullRequest: what record resolves to is not used.
RecordLockPull(w) ==
  /\ lpc[w] = "recording"
  /\ LET r == largs[w].repo
         lock == largs[w].lock
     IN /\ lockUpdatePrs' = RecordPrs(lockUpdatePrs, r, lock, lnew[w])
        /\ lastRec' = RecordCall(r, lock, lnew[w])
        /\ lret' = [lret EXCEPT ![w] =
                      IF RecordResult(lockUpdatePrs, r, lock, lnew[w]) = <<"threw">>
                        THEN <<"threw">> ELSE lnew[w]]
  /\ lpc' = [lpc EXCEPT ![w] = "idle"]
  /\ lstage' = [lstage EXCEPT ![w] = "record"]
  /\ UNCHANGED <<lockPulls, prNumbers, largs, lnew, lcalls, lraced, lcaller>>
  /\ UNCHANGED <<storeVars, githubVars, scanVars, copyVars, pubVars, fnVars>>

\* A maintainer merges or closes an open lock-update pull request.
LockPullCloses(r) ==
  /\ \E pr \in lockPulls[r] : lockPulls' = [lockPulls EXCEPT ![r] = @ \ {pr}]
  /\ UNCHANGED <<lockUpdatePrs, prNumbers, lpc, largs, lnew, lret, lstage,
                 lcalls, lraced, lastRec, lcaller>>
  /\ UNCHANGED <<storeVars, githubVars, scanVars, copyVars, pubVars, fnVars>>

(***************************************************************************)
(* onPostProcessorPublished                                                *)
(***************************************************************************)

\* collection(yamls).where('yaml.docker.image', '==', dockerImageName).get(),
\* mapped to [doc.id, doc.data()]: here the ids, in the order of the
\* collection.
FindReposWithPostProcessor(docs, dockerImageName) ==
  SelectSeq(ReposOrder,
            LAMBDA r : /\ docs[r].exists
                       /\ docs[r].data.yaml # <<>>
                       /\ docs[r].data.yaml[1].docker.image = dockerImageName)

StaleAlways(configs, dockerImageDigest) == TRUE

\* let stale = true; try { stale = configs.lock!.docker.digest !==
\* dockerImageDigest } catch: reading a missing lock throws and stale stays
\* true.
Stale(configs, dockerImageDigest) ==
  IF configs.lock = <<>> THEN TRUE
  ELSE configs.lock[1].docker.digest # dockerImageDigest

\* onPostProcessorPublished: the repos that use the image are read from the
\* store, and for each stale one createOnePullRequestForUpdatingLock is
\* called and not awaited, so the handler returns with the calls under way.
OnPostProcessorPublished(dockerImageName, dockerImageDigest) ==
  /\ pubs < MaxPubs
  /\ pubCalls = {}
  /\ pubs' = pubs + 1
  /\ LET repos == FindReposWithPostProcessor(yamls, dockerImageName)
         lock == OwlBotLock(dockerImageName, dockerImageDigest)
         calls == {[repo |-> repos[i], lock |-> lock] :
                     i \in {j \in DOMAIN repos :
                              Stale(yamls[repos[j]].data, dockerImageDigest)}}
     IN /\ pubCalls' = calls
        /\ lastPub' = [called |-> TRUE, image |-> dockerImageName,
                       digest |-> dockerImageDigest,
                       returned |-> {repos[i] : i \in DOMAIN repos},
                       calls |-> calls]
  /\ UNCHANGED <<storeVars, githubVars, scanVars, copyVars, lockVars, fnVars>>

\* findReposWithPostProcessor rejects, and so does the handler.
PublishedThrows(dockerImageName, dockerImageDigest) ==
  /\ pubs < MaxPubs
  /\ pubCalls = {}
  /\ pubs' = pubs + 1
  /\ lastPub' = [called |-> TRUE, image |-> dockerImageName,
                 digest |-> dockerImageDigest, returned |-> {}, calls |-> {}]
  /\ UNCHANGED pubCalls
  /\ UNCHANGED <<storeVars, githubVars, scanVars, copyVars, lockVars, fnVars>>

\* The find request of a call that the handler made is answered.
PublishedCall(w) ==
  /\ \E call \in pubCalls :
       /\ FindOrCreate(w, call.repo, call.lock)
       /\ pubCalls' = pubCalls \ {call}
  /\ UNCHANGED <<pubs, lastPub>>
  /\ UNCHANGED <<storeVars, githubVars, scanVars, copyVars, fnVars>>

(***************************************************************************)
(* FakeConfigsStore.findReposAffectedByFileChanges                         *)
(***************************************************************************)

\* Strings are sequences of characters.
\* The sequences over a set with at most n elements.
SeqsUpTo(S, n) == UNION {[1..k -> S] : k \in 0..n}

\* toFullMatchRegExp(source).test(text) for a source of literal characters
\* and dots: the whole text matches, a dot standing for any one character.
FullMatch(source, text) ==
  /\ Len(source) = Len(text)
  /\ \A i \in DOMAIN source : source[i] = "." \/ source[i] = text[i]

\* The loops of the store: for each repo of the map, for each rule, for
\* (const source of deepCopy.source), which takes the characters of the
\* string one by one, and for (const filePath in changedFilePaths), which
\* takes the indexes of the array, each as a string; the first match
\* pushes the repo and leaves its loops.
FindReposAffectedByFileChanges(configs, changedFilePaths) ==
  SelectSeq(ReposOrder,
            LAMBDA repoName :
              \E d \in DOMAIN configs[repoName] :
                \E c \in DOMAIN configs[repoName][d].source :
                  \E k \in DOMAIN changedFilePaths :
                    FullMatch(<<configs[repoName][d].source[c]>>,
                              <<ToString(k - 1)>>))

\* A test or the scan calls the store.
CallFindReposAffected ==
  /\ fpc = 0
  /\ fpc' = 1
  /\ fout' = [result |-> FindReposAffectedByFileChanges(fin.configs,
                                                        fin.paths)]
  /\ UNCHANGED fin
  /\ UNCHANGED <<storeVars, githubVars, scanVars, copyVars, lockVars, pubVars>>

(***************************************************************************)
(* pattern-match: makePatternMatchAllSubdirs and newMinimatchFromSource    *)
(***************************************************************************)

\* String.prototype.endsWith
EndsWith(str, suffix) ==
  /\ Len(str) >= Len(suffix)
  /\ SubSeq(str, Len(str) - Len(suffix) + 1, Len(str)) = suffix

MakePatternAppendAlways(pattern) == pattern \o <<"/", "*", "*">>

\* Make sure pattern always ends with /**
MakePatternMatchAllSubdirs(pattern) ==
  IF EndsWith(pattern, <<"/", "*", "*">>) THEN pattern
  ELSE IF EndsWith(pattern, <<"/", "*">>) THEN pattern \o <<"*">>
  ELSE IF EndsWith(pattern, <<"/">>) THEN pattern \o <<"*", "*">>
  ELSE pattern \o <<"/", "*", "*">>

\* str.split(/\/+/), as minimatch splits patterns and paths: a run of
\* slashes ends a part.
SlashSplit(str) ==
  LET RECURSIVE SplitFrom(_, _, _)
      \* The parts from position i on, the part cur being under way.
      SplitFrom(i, cur, parts) ==
        IF i > Len(str) THEN Append(parts, cur)
        ELSE IF str[i] = "/"
          THEN IF i < Len(str) /\ str[i + 1] = "/"
                 THEN SplitFrom(i + 1, cur, parts)
                 ELSE SplitFrom(i + 1, <<>>, Append(parts, cur))
          ELSE SplitFrom(i + 1, Append(cur, str[i]), parts)
  IN SplitFrom(1, <<>>, <<>>)

RECURSIVE JoinParts(_)
\* parts.join('/')
JoinParts(parts) ==
  IF parts = <<>> THEN <<>>
  ELSE IF Len(parts) = 1 THEN parts[1]
  ELSE parts[1] \o <<"/">> \o JoinParts(Tail(parts))

\* A path part that no wildcard matches: '.', '..' and dot files.
Dotted(part) == part # <<>> /\ part[1] = "."

\* hit = (typeof p === 'string') ? f === p : f.match(p): a part without
\* magic is compared; one with magic is a regular expression where each '*'
\* is [^/]*?, and when it starts with magic it matches no empty and no
\* dotted name.
PartMatch(part, name) ==
  LET RECURSIVE StarMatch(_, _)
      StarMatch(p, n) ==
        IF p = <<>> THEN n = <<>>
        ELSE IF Head(p) = "*"
          THEN \E k \in 0..Len(n) :
                 StarMatch(Tail(p), SubSeq(n, k + 1, Len(n)))
          ELSE /\ n # <<>>
               /\ Head(n) = Head(p)
               /\ StarMatch(Tail(p), Tail(n))
  IN IF \A i \in DOMAIN part : part[i] # "*" THEN name = part
     ELSE /\ StarMatch(part, name)
          /\ part[1] = "*" => (name # <<>> /\ ~Dotted(name))

RECURSIVE MatchOne(_, _, _)
\* Minimatch.matchOne(file, pattern, partial = false).  When the file is
\* used up and the pattern left is a '**', matchers differ: the Minimatch
\* class answers no, a matcher that takes '**' for zero or more directories
\* (as glob does) answers yes; dirItself says which one is in use.  The
\* part '**' is the one that minimatch parses to GLOBSTAR.
MatchOne(file, pattern, dirItself) ==
  IF file = <<>> /\ pattern = <<>> THEN TRUE
  ELSE IF file = <<>>
    THEN dirItself /\ \A i \in DOMAIN pattern : pattern[i] = <<"*", "*">>
  ELSE IF pattern = <<>> THEN Len(file) = 1 /\ file[1] = <<>>
  ELSE IF Head(pattern) = <<"*", "*">>
    THEN IF Len(pattern) = 1
           THEN \A i \in DOMAIN file : ~Dotted(file[i])
           ELSE \E fr \in DOMAIN file :
                  /\ \A j \in 1..(fr - 1) : ~Dotted(file[j])
                  /\ MatchOne(SubSeq(file, fr, Len(file)), Tail(pattern),
                              dirItself)
    ELSE /\ PartMatch(Head(pattern), Head(file))
         /\ MatchOne(Tail(file), Tail(pattern), dirItself)

\* new Minimatch(pattern, {matchBase}).match(f): an empty pattern matches
\* the empty string only, and a pattern of one part is matched against the
\* basename, the last part of the path that is not empty, when matchBase is
\* set.
MinimatchMatch(pattern, f, matchBase, dirItself) ==
  LET parts == SlashSplit(pattern)
      file == SlashSplit(f)
      full == {i \in DOMAIN file : file[i] # <<>>}
      filename == IF full = {} THEN file[1]
                  ELSE file[CHOOSE i \in full : \A j \in full : j <= i]
  IN IF pattern = <<>> THEN f = <<>>
     ELSE MatchOne(IF matchBase /\ Len(parts) = 1 THEN <<filename>>
                   ELSE file,
                   parts, dirItself)

NewMinimatchNotNormalized(pattern, f, dirItself) ==
  MinimatchMatch(pattern, f, TRUE, dirItself)

\* newMinimatchFromSource(pattern).match(f)
NewMinimatchFromSource(pattern, f, dirItself) ==
  MinimatchMatch(MakePatternMatchAllSubdirs(pattern), f, TRUE, dirItself)

\* The matchers of p, p/, p/* and p/** are asked about a candidate path.
CallMatchSpellings ==
  /\ fpc = 0
  /\ fpc' = 1
  /\ fout' = [i \in 1..4 |->
                NewMinimatchFromSource(
                  fin.base \o <<<<>>, <<"/">>, <<"/", "*">>,
                                <<"/", "*", "*">>>>[i],
                  fin.path, fin.dirItself)]
  /\ UNCHANGED fin
  /\ UNCHANGED <<storeVars, githubVars, scanVars, copyVars, lockVars, pubVars>>

\* A caller normalizes a source pattern.
CallMakePattern ==
  /\ fpc = 0
  /\ fpc' = 1
  /\ fout' = <<MakePatternMatchAllSubdirs(fin)>>
  /\ UNCHANGED fin
  /\ UNCHANGED <<storeVars, githubVars, scanVars, copyVars, lockVars, pubVars>>

\* A caller normalizes a pattern that is normalized already.
CallMakePatternAgain ==
  /\ fpc = 1
  /\ fpc' = 2
  /\ fout' = Append(fout, MakePatternMatchAllSubdirs(fout[1]))
  /\ UNCHANGED fin
  /\ UNCHANGED <<storeVars, githubVars, scanVars, copyVars, lockVars, pubVars>>

(***************************************************************************)
(* copyDirs                                                                *)
(***************************************************************************)

\* The names of a path that say where it leads: the parts that are neither
\* empty nor '.'.  The paths of the model hold no '..'.
Parts(str) == SelectSeq(SlashSplit(str), LAMBDA p : p # <<>> /\ p # <<".">>)

\* path.normalize(str): runs of slashes and '.' parts go, a leading and a
\* trailing slash stay, and the empty path becomes '.'.
PathNormalize(str) ==
  LET body == JoinParts(Parts(str))
      abs == str # <<>> /\ str[1] = "/"
      trail == str # <<>> /\ str[Len(str)] = "/"
  IN IF body = <<>>
       THEN IF abs THEN <<"/">>
            ELSE IF trail THEN <<".", "/">> ELSE <<".">>
       ELSE (IF abs THEN <<"/">> ELSE <<>>) \o body
              \o (IF trail THEN <<"/">> ELSE <<>>)

\* path.join(...segs): the segments that are not empty, joined with '/' and
\* normalized; '.' when nothing is left.
PathJoin(segs) ==
  LET full == SelectSeq(segs, LAMBDA s : s # <<>>)
  IN IF full = <<>> THEN <<".">> ELSE PathNormalize(JoinParts(full))

\* path.dirname(apath) and path.basename(apath) of a normalized path, as
\* path.parse gives them: the slashes at its end do not count, the
\* directory ends before the last slash and is '.' when there is none.
PathParse(apath) ==
  LET RECURSIVE DropTrailingSlashes(_)
      DropTrailingSlashes(str) ==
        IF Len(str) > 1 /\ str[Len(str)] = "/"
          THEN DropTrailingSlashes(SubSeq(str, 1, Len(str) - 1))
          ELSE str
      str == DropTrailingSlashes(apath)
      slashes == {i \in DOMAIN str : str[i] = "/"}
      slash == IF slashes = {} THEN 0
               ELSE CHOOSE i \in slashes : \A j \in slashes : j <= i
  IN [dir |-> IF slash = 0 THEN <<".">>
              ELSE IF slash = 1 THEN <<"/">>
              ELSE SubSeq(str, 1, slash - 1),
      base |-> IF str = <<"/">> THEN <<>>
               ELSE SubSeq(str, slash + 1, Len(str))]

\* trimSlashes(apath): the normalized path without one leading and one
\* trailing separator.
TrimSlashes(apath) ==
  LET n == PathNormalize(apath)
      start == IF n[1] = "/" THEN 1 ELSE 0
      end == IF n[Len(n)] = "/" THEN Len(n) - 1 ELSE Len(n)
  IN SubSeq(n, start + 1, IF end > start THEN end ELSE start)

\* stripPrefix(prefix, filePath), an undefined prefix being '' (prefix ??
\* ''): the basename when the whole path matches the prefix; otherwise the
\* names from the leaf towards the root are collected until the directory
\* left matches the prefix or is '', the separator or the path itself.
StripPrefix(prefix, filePath, dirItself) ==
  LET pattern == TrimSlashes(prefix)
      trimmed == TrimSlashes(filePath)
      RECURSIVE StripLoop(_, _)
      StripLoop(path, pathSegments) ==
        LET dirName == PathParse(path).dir
            segments == Append(pathSegments, PathParse(path).base)
        IN IF \/ MinimatchMatch(pattern, dirName, TRUE, dirItself)
              \/ dirName = <<>>
              \/ dirName = <<"/">>
              \/ dirName = path
             THEN PathJoin(Reverse(segments))
             ELSE StripLoop(dirName, segments)
  IN IF MinimatchMatch(pattern, trimmed, TRUE, dirItself)
       THEN PathParse(trimmed).base
       ELSE StripLoop(trimmed, <<>>)

\* A directory tree: a function from the paths of its entries, each path
\* the sequence of its names and <<>> the root, to "dir" or the content of
\* the file.  Every entry but the root lies in a directory of the tree.
\* No tree at all, where the root directory is missing, is <<>>.
\* Whether the path key lies at or beneath the path top.
IsPrefix(top, key) ==
  Len(top) <= Len(key) /\ SubSeq(key, 1, Len(top)) = top

\* stat(path)?.isDirectory()
IsDirectory(tree, key) == key \in DOMAIN tree /\ tree[key] = "dir"

\* The tree with the entries of more, which replace those of tree.
With(tree, more) ==
  [k \in DOMAIN tree \cup DOMAIN more |->
     IF k \in DOMAIN more THEN more[k] ELSE tree[k]]

\* fs.rmSync(path, {recursive: true}) for each of the paths that exists.
RmSync(tree, dead) ==
  [k \in {e \in DOMAIN tree : \A top \in dead : ~IsPrefix(top, e)} |->
     tree[k]]

\* The outcome of a call on the file system.
Outcome(tree, threw) == [tree |-> tree, threw |-> threw]

MkdirSyncNotRecursive(tree, key) ==
  LET above == {SubSeq(key, 1, n) : n \in 0..Len(key)}
  IN IF key \in DOMAIN tree THEN Outcome(tree, TRUE)
     ELSE Outcome(With(tree, [k \in above |-> "dir"]), FALSE)

\* fs.mkdirSync(path, {recursive: true}): the directory and the missing ones
\* above it are made; it throws when a file is in the way.
MkdirSync(tree, key) ==
  LET above == {SubSeq(key, 1, n) : n \in 0..Len(key)}
  IN IF \E k \in above : k \in DOMAIN tree /\ tree[k] # "dir"
       THEN Outcome(tree, TRUE)
       ELSE Outcome(With(tree, [k \in above |-> "dir"]), FALSE)

CopyFileSyncExclusive(tree, key, content) ==
  IF ~IsDirectory(tree, SubSeq(key, 1, Len(key) - 1))
    THEN Outcome(tree, TRUE)
    ELSE IF key \in DOMAIN tree THEN Outcome(tree, FALSE)
    ELSE Outcome(With(tree, [k \in {key} |-> content]), FALSE)

\* fs.copyFileSync(src, dest): the file is written over the one that is
\* there; it throws when dest is a directory or lies in none.
CopyFileSync(tree, key, content) ==
  IF \/ IsDirectory(tree, key)
     \/ ~IsDirectory(tree, SubSeq(key, 1, Len(key) - 1))
    THEN Outcome(tree, TRUE)
    ELSE Outcome(With(tree, [k \in {key} |-> content]), FALSE)

RECURSIVE SortPaths(_)
\* The entries in the order in which glob returns them, that of their
\* paths, '/' coming before the letters.
SortPaths(keys) ==
  LET collation ==
        <<"/", "a", "b", "k", "m", "n", "o", "q", "r", "s", "t", "x", "y">>
      Rank(c) == CHOOSE i \in DOMAIN collation : collation[i] = c
      RECURSIVE StrLess(_, _)
      StrLess(s, t) ==
        IF t = <<>> THEN FALSE
        ELSE IF s = <<>> THEN TRUE
        ELSE IF Head(s) = Head(t) THEN StrLess(Tail(s), Tail(t))
        ELSE Rank(Head(s)) < Rank(Head(t))
      first == CHOOSE k \in keys :
                 \A j \in keys \ {k} : StrLess(JoinParts(k), JoinParts(j))
  IN IF keys = {} THEN <<>>
     ELSE <<first>> \o SortPaths(keys \ {first})

\* glob.sync(pattern): the entries of the tree that the parts of the
\* pattern match.  Whether 'dir/**' yields dir itself is glob's choice,
\* dirItself.
GlobSync(parts, tree, dirItself) ==
  {k \in DOMAIN tree : MatchOne(k, parts, dirItself)}

RECURSIVE DeadPaths(_, _, _, _)
\* The first loop of copyDirs: deadPaths after the rules from i on, each
\* rule assigning the variable: what glob.sync(path.join(destDir,
\* path.basename(copyDir.source))) finds when the dest is trimmed to '',
\* path.join(destDir, copyDir.dest) otherwise.
DeadPaths(copyDirs, i, destTree, dirItself) ==
  LET copyDir == copyDirs[i]
      name == PathParse(copyDir.source).base
      here == IF TrimSlashes(copyDir.dest) = <<>>
                THEN GlobSync(IF name = <<>> THEN <<>> ELSE <<name>>,
                              destTree, dirItself)
                ELSE {Parts(PathJoin(<<copyDir.dest>>))}
  IN IF i > Len(copyDirs) THEN {}
     ELSE IF i = Len(copyDirs) THEN here
     ELSE DeadPaths(copyDirs, i + 1, destTree, dirItself)

RECURSIVE CopySteps(_, _, _)
\* Every copy of the second loop of copyDirs, in its order: for each rule,
\* the source paths that glob.sync(pattern, {cwd: sourceDir}) returns, each
\* with path.join(destDir, copyDir.dest, stripPrefix(copyDir['strip-prefix'],
\* sourcePath)).
CopySteps(copyDirs, sourceTree, dirItself) ==
  LET copyDir == Head(copyDirs)
      pattern == TrimSlashes(MakePatternMatchAllSubdirs(copyDir.source))
      sourcePaths ==
        SortPaths(GlobSync(SlashSplit(pattern), sourceTree, dirItself)
                    \ {<<>>})
      FullDestPath(key) ==
        Parts(PathJoin(<<copyDir.dest,
                         StripPrefix(copyDir.strip, JoinParts(key),
                                     dirItself)>>))
  IN IF copyDirs = <<>> THEN <<>>
     ELSE [i \in DOMAIN sourcePaths |->
             [from |-> sourcePaths[i], to |-> FullDestPath(sourcePaths[i])]]
            \o CopySteps(Tail(copyDirs), sourceTree, dirItself)

RECURSIVE CopyAll(_, _, _, _)
\* The copies from step i on; an exception ends them.  A directory is
\* made, a file is copied after its directory is made when it is missing.
CopyAll(tree, sourceTree, steps, i) ==
  LET step == steps[i]
      dirName == SubSeq(step.to, 1, Len(step.to) - 1)
      made == IF IsDirectory(tree, dirName) THEN Outcome(tree, FALSE)
              ELSE MkdirSync(tree, dirName)
      done == IF IsDirectory(sourceTree, step.from)
                THEN MkdirSync(tree, step.to)
              ELSE IF made.threw THEN made
              ELSE CopyFileSync(made.tree, step.to, sourceTree[step.from])
  IN IF i > Len(steps) THEN Outcome(tree, FALSE)
     ELSE IF done.threw THEN done
     ELSE CopyAll(done.tree, sourceTree, steps, i + 1)

\* copyDirs(sourceDir, destDir, yaml): the dead paths are removed, then the
\* source paths of every rule are copied.
CopyDirs(sourceTree, destTree, copyDirs, dirItself) ==
  CopyAll(RmSync(destTree, DeadPaths(copyDirs, 1, destTree, dirItself)),
          sourceTree, CopySteps(copyDirs, sourceTree, dirItself), 1)

\* The source tree: directories a, a/x, b, b/y and files q, a/r, b/y/s and
\* b/r, the two files r being different.
SourceTree ==
  (<<>> :> "dir") @@ (<<<<"a">>>> :> "dir") @@ (<<<<"b">>>> :> "dir")
    @@ (<<<<"a">>, <<"x">>>> :> "dir") @@ (<<<<"b">>, <<"y">>>> :> "dir")
    @@ (<<<<"q">>>> :> "q") @@ (<<<<"a">>, <<"r">>>> :> "r")
    @@ (<<<<"b">>, <<"y">>, <<"s">>>> :> "s") @@ (<<<<"b">>, <<"r">>>> :> "t")

\* copyDirs is called.
CallCopyDirs ==
  /\ fpc = 0
  /\ fpc' = 1
  /\ fout' = <<CopyDirs(SourceTree, fin.dest, fin.rules, fin.dirItself)>>
  /\ UNCHANGED fin
  /\ UNCHANGED <<storeVars, githubVars, scanVars, copyVars, lockVars, pubVars>>

\* copyDirs is called again, with the same source tree and rules.
CallCopyDirsAgain ==
  /\ fpc = 1
  /\ fpc' = 2
  /\ fout' = Append(fout, CopyDirs(SourceTree, fout[1].tree, fin.rules,
                                   fin.dirItself))
  /\ UNCHANGED fin
  /\ UNCHANGED <<storeVars, githubVars, scanVars, copyVars, lockVars, pubVars>>

(***************************************************************************)
(* scanGithubForConfigs                                                    *)
(***************************************************************************)

\* The orgInstallationId that is never taken from the stored configs.
OrgInstallationIdAsPassed(orgInstallationId, configsInstallationId) ==
  orgInstallationId

\* if (!orgInstallationId) orgInstallationId = configs.installationId: the
\* id of the org after a repo with a stored id; 0 is no id.
OrgInstallationId(orgInstallationId, configsInstallationId) ==
  IF orgInstallationId = 0 THEN configsInstallationId ELSE orgInstallationId

\* scanGithubForConfigs over the repos listed, numbered in the order of the
\* listing; stored[repo] is the installationId of the configs that
\* getConfigs returns for the repo, 0 when there are no configs or no id in
\* them.  The result is the log of the refreshConfigs calls made.  A
\* refreshConfigs call is awaited and may reject, which ends the scan: the
\* call numbered throwAt does (0: none).
ScanGithubForConfigs(stored, orgInstallationId, throwAt) ==
  LET Refresh(st, repo, installationId, when) ==
        IF Len(st.log) + 1 = throwAt
          THEN [st EXCEPT !.threw = TRUE]
          ELSE [st EXCEPT !.log = Append(@, [repo |-> repo,
                                             installationId |-> installationId,
                                             when |-> when])]
      RECURSIVE Listing(_, _)
      Listing(st, repo) ==
        IF repo > Len(stored) \/ st.threw THEN st
        ELSE IF stored[repo] # 0
          THEN Listing(Refresh([st EXCEPT !.org =
                                  OrgInstallationId(@, stored[repo])],
                               repo, stored[repo], "now"),
                       repo + 1)
          ELSE Listing([st EXCEPT !.refreshLaters = Append(@, repo)],
                       repo + 1)
      RECURSIVE Laters(_, _)
      Laters(st, i) ==
        IF i > Len(st.refreshLaters) \/ st.threw THEN st
        ELSE Laters(Refresh(st, st.refreshLaters[i], st.org, "later"), i + 1)
      listed == Listing([org |-> orgInstallationId, refreshLaters |-> <<>>,
                         log |-> <<>>, threw |-> FALSE, noId |-> FALSE], 1)
  IN IF listed.threw \/ listed.refreshLaters = <<>> THEN listed
     ELSE IF listed.org = 0 THEN [listed EXCEPT !.noId = TRUE]
     ELSE Laters(listed, 1)

\* A scan of the org is run.
CallScanGithubForConfigs ==
  /\ fpc = 0
  /\ fpc' = 1
  /\ fout' = <<ScanGithubForConfigs(fin.stored, fin.orgInstallationId,
                                    fin.throwAt)>>
  /\ UNCHANGED fin
  /\ UNCHANGED <<storeVars, githubVars, scanVars, copyVars, lockVars, pubVars>>

(***************************************************************************)
(* maybeCreatePullRequestForLockUpdate                                     *)
(***************************************************************************)

\* createPullRequestFromLastCommit: one pull request whose head is the
\* branch, holding the last commit, with the labels given.
CreatePullRequestFromLastCommit(branch, lastCommit, labels) ==
  <<[head |-> branch, commit |-> lastCommit, labels |-> labels]>>

\* As maybeCreatePullRequestForLockUpdate, without the test of the status.
MaybeCreateWhateverTheStatus(changed, branch, throwAt) ==
  LET steps == <<"git status", "git add", "git commit --amend",
                 "getGitHubShortLivedAccessToken", "git remote get-url",
                 "git branch", "getShortLivedOctokit",
                 "createPullRequestFromLastCommit">>
      threw == throwAt \in 1..Len(steps)
      made == IF threw THEN SubSeq(steps, 1, throwAt - 1) ELSE steps
      did(step) == \E i \in DOMAIN made : made[i] = step
      lastCommit == IF did("git commit --amend") THEN {"lock"} \cup changed
                                                 ELSE {"lock"}
  IN [log |-> made, threw |-> threw, lastCommit |-> lastCommit,
      pulls |-> IF did("createPullRequestFromLastCommit")
                  THEN CreatePullRequestFromLastCommit(branch, lastCommit,
                                                       {"owl-bot-update-lock"})
                  ELSE <<>>]

\* The calls that maybeCreatePullRequestForLockUpdate makes, in order, for a
\* working tree with the files in changed modified or new, on a branch whose
\* last commit holds the lock file.  Each call is a collaborator: the call
\* numbered throwAt throws (0: none does), which ends the function.
MaybeCreatePullRequestForLockUpdate(changed, branch, throwAt) ==
  LET status == changed
      steps == IF status # {}
                 THEN <<"git status", "git add", "git commit --amend",
                        "getGitHubShortLivedAccessToken", "git remote get-url",
                        "git branch", "getShortLivedOctokit",
                        "createPullRequestFromLastCommit">>
                 ELSE <<"git status">>
      threw == throwAt \in 1..Len(steps)
      made == IF threw THEN SubSeq(steps, 1, throwAt - 1) ELSE steps
      did(step) == \E i \in DOMAIN made : made[i] = step
      lastCommit == IF did("git commit --amend") THEN {"lock"} \cup changed
                                                 ELSE {"lock"}
  IN [log |-> made, threw |-> threw, lastCommit |-> lastCommit,
      pulls |-> IF did("createPullRequestFromLastCommit")
                  THEN CreatePullRequestFromLastCommit(branch, lastCommit,
                                                       {"owl-bot-update-lock"})
                  ELSE <<>>]

\* The post processor has run in the checkout; the function is called.
CallMaybeCreatePullRequest ==
  /\ fpc = 0
  /\ fpc' = 1
  /\ fout' = <<MaybeCreatePullRequestForLockUpdate(fin.changed, fin.branch,
                                                   fin.throwAt)>>
  /\ UNCHANGED fin
  /\ UNCHANGED <<storeVars, githubVars, scanVars, copyVars, lockVars, pubVars>>

\* stripPrefix is called, by copyDirs or by a test.
CallStripPrefix ==
  /\ fpc = 0
  /\ fpc' = 1
  /\ fout' = <<StripPrefix(fin.prefix, fin.path, fin.dirItself)>>
  /\ UNCHANGED fin
  /\ UNCHANGED <<storeVars, githubVars, scanVars, copyVars, lockVars, pubVars>>

(***************************************************************************)
(* Initial states                                                          *)
(***************************************************************************)

IdleLock ==
  /\ lockUpdatePrs = [k \in Keys |-> NoPr]
  /\ lockPulls = [r \in Repos |-> {}]
  /\ prNumbers = [r \in Repos |-> 0]
  /\ lpc = [w \in Writers |-> "idle"]
  /\ largs = [w \in Writers |-> NoLockArgs]
  /\ lnew = [w \in Writers |-> NoPr]
  /\ lret = [w \in Writers |-> NoPr]
  /\ lstage = [w \in Writers |-> "none"]
  /\ lcalls = 0
  /\ lraced = FALSE
  /\ lastRec = NoRecordCall
  /\ lcaller = "none"

IdleFn ==
  /\ fin = <<>>
  /\ fout = <<>>
  /\ fpc = 0

IdlePub ==
  /\ pubs = 0
  /\ pubCalls = {}
  /\ lastPub = [called |-> FALSE, image |-> "gcr.io/post-processor",
                digest |-> "sha256:1", returned |-> {}, calls |-> {}]

IdleStore ==
  /\ yamls = [r \in Repos |-> NoDoc]
  /\ wpc = [w \in Writers |-> "idle"]
  /\ wrepo = [w \in Writers |-> "googleapis/r1"]
  /\ wcfg = [w \in Writers |-> NoDoc]
  /\ wnew = [w \in Writers |-> NoConfigs]
  /\ wres = [w \in Writers |-> "none"]
  /\ wruns = [w \in Writers |-> 0]
  /\ raced = FALSE
  /\ last = NoCall
  /\ won = [r \in Repos |-> NoConfigs]

IdleGithub ==
  /\ commitMsgs = {}
  /\ searchIndex = {}
  /\ pulls = [r \in Repos |-> <<>>]
  /\ issues = [r \in Repos |-> <<>>]

IdleCopy ==
  /\ cpc = [p \in Procs |-> "idle"]
  /\ cargs = [p \in Procs |-> NoArgs]
  /\ cout = [p \in Procs |-> "none"]
  /\ cfinal = [p \in Procs |-> "none"]
  /\ cruns = [p \in Procs |-> 0]
  /\ raceSeen = [p \in Procs |-> FALSE]
  /\ pushLog = {}
  /\ issueReqs = {}

IdleScan ==
  /\ cloneDepth = 1
  /\ affects = [c \in Commits |-> {}]
  /\ scanPc = "off"
  /\ commitHashes = <<>>
  /\ idx = 1
  /\ todoStack = <<>>
  /\ examined = <<>>
  /\ stopped = FALSE
  /\ applied = <<>>
  /\ scanRun = 0
  /\ prevOutcome = "none"
  /\ failures = 0
  /\ atStart = <<[r \in Repos |-> <<>>], [r \in Repos |-> <<>>], {}>>

\* The hashes that the markers of one repo mention.
MarkedIn(marked, r) == {c \in Commits : <<r, c>> \in marked}

\* One item whose body mentions the marked hashes of the repo.
PullsOf(marked, r) ==
  IF MarkedIn(marked, r) = {} THEN <<>>
  ELSE <<PullRequest(BodyWith(MarkedIn(marked, r)), <<"branch", "other", 0>>,
                     "main", "other", EmptyHash)>>

IssuesOf(marked, r) ==
  IF MarkedIn(marked, r) = {} THEN <<>>
  ELSE <<Issue(BodyWith(MarkedIn(marked, r)), "other")>>

\* A scan starts from any history, any depth, and destination repos in which
\* earlier propagation of a commit to a repo it affects left its markers in
\* one of the places copyExists looks.
InitScan ==
  /\ IdleStore
  /\ IdleCopy
  /\ IdleLock
  /\ IdlePub
  /\ IdleFn
  /\ cloneDepth \in {HistoryLen - 1, HistoryLen}
  /\ affects \in [Commits -> SUBSET Repos]
  /\ \E marked \in SUBSET {x \in Repos \X Commits : x[1] \in affects[x[2]]},
        kind \in MarkerKinds :
       /\ commitMsgs = IF kind = "commit" THEN marked ELSE {}
       /\ searchIndex = IF kind = "search" THEN marked ELSE {}
       /\ pulls = [r \in Repos |->
                     IF kind \in {"search", "pull"} THEN PullsOf(marked, r)
                     ELSE <<>>]
       /\ issues = [r \in Repos |->
                      IF kind = "issue" THEN IssuesOf(marked, r) ELSE <<>>]
  /\ scanPc = "start"
  /\ commitHashes = <<>>
  /\ idx = 1
  /\ todoStack = <<>>
  /\ examined = <<>>
  /\ stopped = FALSE
  /\ applied = <<>>
  /\ scanRun = 1
  /\ prevOutcome = "none"
  /\ failures = 0
  /\ atStart = <<pulls, issues, pushLog>>

NextScan ==
  \/ StartScan
  \/ ExamineCommit
  \/ ExamineThrows
  \/ ApplyQueue
  \/ RerunScan

SpecScan == InitScan /\ [][NextScan]_vars

InitStore ==
  /\ IdleGithub
  /\ IdleCopy
  /\ IdleScan
  /\ IdleLock
  /\ IdlePub
  /\ IdleFn
  /\ yamls \in [Repos -> SeedDocs]
  /\ wpc = [w \in Writers |-> "idle"]
  /\ wrepo = [w \in Writers |-> "googleapis/r1"]
  /\ wcfg = [w \in Writers |-> NoDoc]
  /\ wnew = [w \in Writers |-> NoConfigs]
  /\ wres = [w \in Writers |-> "none"]
  /\ wruns = [w \in Writers |-> 0]
  /\ raced = FALSE
  /\ last = NoCall
  /\ won = [r \in Repos |-> NoConfigs]

NextStore ==
  \/ \E w \in Writers, r \in Repos : LoadConfigs(w, r)
  \/ \E w \in Writers : RefreshUpToDate(w)
  \/ \E w \in Writers : RefreshFetch(w)
  \/ \E w \in Writers : RefreshStore(w)
  \/ \E w \in Writers : RefreshReturn(w)

SpecStore == InitStore /\ [][NextStore]_vars

\* copyCode runs, as started by the copy-code command, on destination repos
\* that no propagation has reached yet.
InitCopy ==
  /\ IdleStore
  /\ IdleGithub
  /\ IdleScan
  /\ IdleCopy
  /\ IdleLock
  /\ IdlePub
  /\ IdleFn

NextCopy ==
  \/ \E p \in Procs, r \in Repos, h \in CopyHashes : FirstCheck(p, r, h)
  \/ \E p \in Procs : LoadYamlFails(p)
  \/ IssueLands
  \/ \E p \in Procs : CopyAndCommit(p)
  \/ \E p \in Procs : FinalCheck(p)
  \/ \E p \in Procs : Push(p)
  \/ \E p \in Procs : CreatePull(p)
  \/ \E p \in Procs : CopyThrows(p)
  \/ \E r \in Repos, h \in OtherHashes : OtherCommits(r, h)
  \/ \E r \in Repos, h \in OtherHashes : OtherOpensPull(r, h)
  \/ SearchIndexes

SpecCopy == InitCopy /\ [][NextCopy]_vars

\* The records that an earlier deployment left in the collection, each for a
\* pull request number 0 that may still be open.
SeedKeys == {MakeUpdateLockKey("googleapis/r1",
                               OwlBotLock("gcr.io/post-processor", "sha256:1"))}

\* Calls of createOnePullRequestForUpdatingLock by concurrent handlers of
\* publications, and clients of the store.
InitLock ==
  /\ IdleStore
  /\ IdleGithub
  /\ IdleScan
  /\ IdleCopy
  /\ IdlePub
  /\ IdleFn
  /\ prNumbers = [r \in Repos |-> 0]
  /\ \E seeded \in SUBSET SeedKeys, open \in SUBSET SeedKeys :
       /\ open \subseteq seeded
       /\ lockUpdatePrs = [k \in Keys |->
            IF k \in seeded THEN PullRequestUrl(k[1], 0) ELSE NoPr]
       /\ lockPulls = [r \in Repos |->
            {[number |-> 0, head |-> LockBranch,
              lock |-> OwlBotLock(k[3], k[5])] : k \in {x \in open : x[1] = r}}]
  /\ lpc = [w \in Writers |-> "idle"]
  /\ largs = [w \in Writers |-> NoLockArgs]
  /\ lnew = [w \in Writers |-> NoPr]
  /\ lret = [w \in Writers |-> NoPr]
  /\ lstage = [w \in Writers |-> "none"]
  /\ lcalls = 0
  /\ lraced = FALSE
  /\ lastRec = NoRecordCall
  /\ lcaller = "none"

NextLock ==
  \/ \E w \in Writers, r \in Repos, l \in OwlBotLocks : FindExisting(w, r, l)
  \/ \E w \in Writers : CreateLockPull(w)
  \/ \E w \in Writers : CreateLockPullThrows(w)
  \/ \E w \in Writers : RecordLockPull(w)
  \/ \E r \in Repos : LockPullCloses(r)
  \/ \E r \in Repos, l \in OwlBotLocks :
       StoreRecords(r, l, ClientPullRequest(r))

SpecLock == InitLock /\ [][NextLock]_vars

\* The records a repo can have when an image is published: none, one with no
\* yaml, one that names the image and has no lock or a lock with some
\* digest, one that names another image, "gcr.io/other-processor".  A key
\* that a record may lack is a sequence: <<>> when it is missing, <<x>> when
\* it has the value x.
InitPublish ==
  /\ LET ConfigsWith(yaml, lock) ==
           DocOf([commithash |-> "a", branchName |-> "main",
                  installationId |-> 5, lock |-> lock, yaml |-> yaml])
         OwlBotYaml(image) == [docker |-> [image |-> image]]
     IN yamls \in
          [Repos ->
             {NoDoc,
              ConfigsWith(<<>>, <<OwlBotLock("gcr.io/post-processor",
                                             "sha256:1")>>),
              ConfigsWith(<<OwlBotYaml("gcr.io/other-processor")>>,
                          <<OwlBotLock("gcr.io/other-processor",
                                       "sha256:1")>>)}
             \cup {ConfigsWith(<<OwlBotYaml(i)>>, <<>>) : i \in Images}
             \cup {ConfigsWith(<<OwlBotYaml(i)>>, <<OwlBotLock(i, g)>>) :
                     i \in Images, g \in Digests}]
  /\ wpc = [w \in Writers |-> "idle"]
  /\ wrepo = [w \in Writers |-> "googleapis/r1"]
  /\ wcfg = [w \in Writers |-> NoDoc]
  /\ wnew = [w \in Writers |-> NoConfigs]
  /\ wres = [w \in Writers |-> "none"]
  /\ wruns = [w \in Writers |-> 0]
  /\ raced = FALSE
  /\ last = NoCall
  /\ won = [r \in Repos |-> NoConfigs]
  /\ IdleGithub
  /\ IdleScan
  /\ IdleCopy
  /\ IdleLock
  /\ IdlePub
  /\ IdleFn

\* Publications of the digests of an image, handled while the calls of
\* earlier publications are under way.
SpecPublish ==
  /\ InitPublish
  /\ [][\/ \E i \in Images, g \in Digests : OnPostProcessorPublished(i, g)
        \/ \E i \in Images, g \in Digests : PublishedThrows(i, g)
        \/ \E w \in Writers : PublishedCall(w)
        \/ \E w \in Writers : CreateLockPull(w)
        \/ \E w \in Writers : CreateLockPullThrows(w)
        \/ \E w \in Writers : RecordLockPull(w)]_vars

\* A function is called on its own, on one of the inputs.
InitFn(inputs) ==
  /\ IdleStore
  /\ IdleGithub
  /\ IdleScan
  /\ IdleCopy
  /\ IdleLock
  /\ IdlePub
  /\ fin \in inputs
  /\ fout = <<>>
  /\ fpc = 0

\* Calls of findReposAffectedByFileChanges on stores with some rules of
\* deep-copy-regex, of which only the source is read, and some paths of
\* changed files.
SpecAffected ==
  /\ InitFn([configs :
               [Repos ->
                  SeqsUpTo({[source |-> x] :
                              x \in {<<"/", "a">>, <<"/", "b">>,
                                     <<"/", ".">>}},
                           MaxRules)],
             paths : SeqsUpTo({<<"/", "a">>, <<"/", "b">>,
                               <<"/", "a", "/", "b">>},
                              MaxPaths)])
  /\ [][CallFindReposAffected]_vars

\* Calls of makePatternMatchAllSubdirs on every short pattern.
SpecPattern ==
  /\ InitFn(SeqsUpTo({"/", "*", "a"}, MaxPatternLen))
  /\ [][CallMakePattern \/ CallMakePatternAgain]_vars

\* Matchers of the spellings of a base pattern, asked about a candidate
\* path: an absolute path of up to MaxPathDepth names.
SpecMatch ==
  /\ InitFn([base :
               {<<"/", "a">>, <<"/", "a", "/", "b">>,
                <<"/", "a", "/", "*", "/", "b">>, <<"/", "*", "/", "b">>,
                <<"/", "a", "/", "*">>, <<"/", "a", "/">>,
                <<"/", "a", "/", "*", "*">>, <<"/", "*", "*", "/", "b">>,
                <<"a">>, <<"*">>, <<"/", "*">>},
             path :
               {JoinParts(<<<<>>>> \o [i \in DOMAIN names |-> <<names[i]>>]) :
                  names \in SeqsUpTo({"a", "b", "x"}, MaxPathDepth) \ {<<>>}},
             dirItself : BOOLEAN])
  /\ [][CallMatchSpellings]_vars

\* scanGithubForConfigs on an org of MaxListed repos, some with configs in
\* the store that hold an installation id, with or without an id passed in.
SpecConfigScan ==
  /\ InitFn([stored : [1..MaxListed -> {0, 5, 7}],
             orgInstallationId : {0, 5, 7},
             throwAt : 0..MaxListed])
  /\ [][CallScanGithubForConfigs]_vars

\* maybeCreatePullRequestForLockUpdate in a checkout where the post
\* processor changed some files or none.
SpecUpdateLock ==
  /\ InitFn([changed : SUBSET {"x.txt", "y.txt"},
             branch : {"owl-bot-update-lock", "main"},
             throwAt : 0..8])
  /\ [][CallMaybeCreatePullRequest]_vars

\* stripPrefix with a prefix, '' standing for an undefined one too, and a
\* path of up to MaxPathDepth names, absolute as in the tests or relative as
\* glob returns it.
SpecStrip ==
  /\ InitFn([prefix :
               {<<>>, <<"/">>, <<"/", "a">>, <<"/", "b">>,
                <<"/", "a", "/", "b">>, <<"/", "b", "/", "c">>,
                <<"/", "a", "/", "*">>, <<"/", "a", "/", "*", "/", "c">>,
                <<"/", "a", "/", "*", "/", "c", "/">>,
                <<"/", "*", "/", "*">>, <<"a", "/", "b">>},
             path :
               {lead \o JoinParts([i \in DOMAIN names |-> <<names[i]>>]) :
                  lead \in {<<>>, <<"/">>},
                  names \in SeqsUpTo({"a", "b", "c"}, MaxPathDepth) \ {<<>>}},
             dirItself : BOOLEAN])
  /\ [][CallStripPrefix]_vars

\* copyDirs with a configuration, on a destination tree: none, one with
\* content of an earlier copy and a file k of its own, one with a file
\* where a rule wants a directory.  A rule without strip-prefix has
\* strip = ''.
SpecCopyDirs ==
  /\ LET CopyDir(source, dest, strip) ==
           [source |-> source, dest |-> dest, strip |-> strip]
     IN InitFn(
          [dest :
             {<<>>,
              (<<>> :> "dir") @@ (<<<<"k">>>> :> "k")
                @@ (<<<<"m">>>> :> "dir") @@ (<<<<"m">>, <<"o">>>> :> "o")
                @@ (<<<<"n">>>> :> "dir") @@ (<<<<"n">>, <<"o">>>> :> "o")
                @@ (<<<<"a">>>> :> "dir") @@ (<<<<"a">>, <<"o">>>> :> "o"),
              (<<>> :> "dir") @@ (<<<<"k">>>> :> "k") @@ (<<<<"m">>>> :> "m")},
           rules :
             SeqsUpTo(
               {CopyDir(<<"/", "a">>, <<"/", "m">>, <<>>),
                CopyDir(<<"/", "b", "/", "y">>, <<"/", "n">>, <<"/", "b">>),
                CopyDir(<<"/", "a">>, <<"/">>, <<>>),
                CopyDir(<<"/", "a">>, <<>>, <<>>),
                CopyDir(<<"/", "b", "/", "*">>, <<"/">>, <<"/", "b">>),
                CopyDir(<<"/", "a">>, <<"/", "m">>, <<"/", "a">>),
                CopyDir(<<"/", "b", "/", "y">>, <<"/", "m", "/", "r">>,
                        <<"/", "b", "/", "y">>),
                CopyDir(<<"/", "q">>, <<"/", "n">>, <<>>),
                CopyDir(<<"/", "b", "/", "*", "*">>, <<"/">>, <<"/", "b">>),
                CopyDir(<<"/", "b">>, <<"/", "m">>, <<"/", "b">>)},
               MaxCopyDirs),
           dirItself : BOOLEAN])
  /\ [][CallCopyDirs \/ CallCopyDirsAgain]_vars

(***************************************************************************)
(* Properties of the configs store                                         *)
(***************************************************************************)

\* The document of the repo of the last storeConfigs call, before the call.
LastPrevDoc == last.prev[last.repo]

\* C1: storeConfigs returns true and makes configs the stored record of the
\* repo if and only if the stored commit hash equals replaceCommithash, or
\* there is no record and replaceCommithash is null.
C1_StoreSucceedsIffHashMatches ==
  last.called =>
    ((last.result = "true" /\ GetConfigs(last.repo) = DocOf(last.configs))
       <=> StoreCondition(LastPrevDoc, last.replace))

\* C2: when storeConfigs returns false, the record of the repo and the
\* records of all other repos are what they were before the call.
C2_RejectedStoreChangesNothing ==
  (last.called /\ last.result = "false") => yamls = last.prev

\* A store was rejected for a repo that has a record whose commit hash is not
\* the expected one, while the collection holds a record.
C2_Witness ==
  /\ last.called
  /\ last.result = "false"
  /\ LastPrevDoc.exists
  /\ LastPrevDoc.data.commithash # last.replace
  /\ \E r \in Repos : yamls[r].exists

\* Both writers have made their storeConfigs call for one repo with one
\* expected commit hash, and the two calls were pending together.
ConcurrentStores ==
  /\ raced
  /\ \A w \in Writers : wpc[w] = "stored"
  /\ wrepo["w1"] = wrepo["w2"]
  /\ ReplaceCommithashOf(wcfg["w1"]) = ReplaceCommithashOf(wcfg["w2"])

\* C3: of two concurrent storeConfigs calls on one repo with the same
\* expected commit hash exactly one returns true and the other false, and a
\* getConfigs of the loser returns the config of the winner.
C3_ExactlyOneConcurrentStoreWins ==
  ConcurrentStores =>
    \E winner \in Writers : \E loser \in Writers \ {winner} :
      /\ wres[winner] = "true"
      /\ wres[loser] = "false"
      /\ GetConfigs(wrepo[loser]) = DocOf(wnew[winner])

\* C4: after a successful storeConfigs, getConfigs returns exactly the config
\* that was written; no field of the previous record survives.
C4_StoreReplacesWholeRecord ==
  (last.called /\ last.result = "true") =>
    GetConfigs(last.repo) = DocOf(last.configs)

\* The storeConfigs call of the writer's run has returned false.
Collided(w) == wpc[w] = "stored" /\ wres[w] = "false"

\* C24: when storeConfigs returns false inside refreshConfigs, the store
\* holds the record that a writer stored after this run read the store (the
\* other writer, as a writer's runs follow one another), and refreshConfigs
\* returns without another write in this run.
C24_CollisionIsNotFatal ==
  /\ [](\A w \in Writers : Collided(w) =>
          /\ won[wrepo[w]] # NoConfigs
          /\ GetConfigs(wrepo[w]) # wcfg[w]
          /\ GetConfigs(wrepo[w]) = DocOf(won[wrepo[w]]))
  /\ [][\A w \in Writers : (Collided(w) /\ wpc'[w] # wpc[w]) =>
          (wpc'[w] = "idle" /\ wres'[w] = "false" /\ yamls' = yamls
           /\ last' = last)]_vars

(***************************************************************************)
(* Properties of the scan                                                  *)
(***************************************************************************)

\* The Todos on the stack.
Queued == {todoStack[i] : i \in DOMAIN todoStack}

\* The iterations that examined a commit of the history.
ExaminedCommits == {i \in DOMAIN examined : examined[i].commitHash # EmptyHash}

\* C5: for every examined commit c and every repo r affected by c, the Todo
\* {r, c} is on the stack if and only if copyExists(r, c) resolves to false.
C5_PushedIffCopyMissing ==
  \A i \in ExaminedCommits : \A r \in examined[i].repos :
    Todo(r, examined[i].commitHash) \in Queued <=> r \notin examined[i].exists

\* Every repo that the commit affects has a marker for it.
Satisfied(c) == \A r \in affects[c] : CopyExists(r, c)
\* No repo that the commit affects has a marker for it.
Unpropagated(c) == \A r \in affects[c] : ~CopyExists(r, c)

\* The oldest n commits are propagated to every repo they affect and every
\* newer commit is not.
OldestPropagated(n) ==
  /\ \A c \in Commits : c <= n => Satisfied(c)
  /\ \A c \in Commits : c > n => Unpropagated(c)

\* The commits that git log lists.
Listed == {commitHashes[i] : i \in DOMAIN commitHashes} \ {EmptyHash}

\* The listed commits that affect a repo and are satisfied.
FullySatisfied == {c \in Listed : affects[c] # {} /\ Satisfied(c)}

\* The commits from HEAD down to, and excluding, the first fully-satisfied one.
AboveFirstSatisfied == {c \in Listed : \A s \in FullySatisfied : c > s}

\* C6: on a history whose oldest N commits are propagated and whose newer
\* commits are not, the queue of the finished scan holds exactly the pairs of
\* the commits from HEAD down to, and excluding, the first fully-satisfied one.
C6_QueueIsUnpropagatedPrefix ==
  (scanPc \in {"applying", "done"} /\ \E n \in 0..HistoryLen : OldestPropagated(n)) =>
    {t \in Queued : t.commitHash # EmptyHash} =
      {Todo(r, c) : <<r, c>> \in {x \in Repos \X AboveFirstSatisfied : x[1] \in affects[x[2]]}}

\* The walk stopped at the i-th iteration.
StoppedAt(i) == stopped /\ i = Len(examined)

\* C7: the walk stops at commit c exactly when c affects at least one repo
\* and every repo affected by c is already propagated for c; a commit that
\* affects no repo never stops it, and nothing older than the stopping commit
\* is examined or queued.
C7_StopsExactlyAtSatisfiedCommit ==
  /\ \A i \in ExaminedCommits :
       StoppedAt(i) <=> (/\ examined[i].repos # {}
                         /\ examined[i].exists = examined[i].repos)
  /\ stopped => /\ scanPc # "scanning"
               /\ \A t \in Queued :
                    t.commitHash >= examined[Len(examined)].commitHash

WalkComplete == stopped \/ idx > Len(commitHashes)

\* C13: an error thrown while a commit is examined or a Todo is applied does
\* not abort the run: the remaining commits are still examined and the Todos
\* of the other repos are still applied.
C13_FailureDoesNotAbortRun ==
  failures > 0 =>
    /\ scanPc # "aborted"
    /\ scanPc = "done" =>
         /\ WalkComplete
         /\ Queued \subseteq {applied[i] : i \in DOMAIN applied}

(***************************************************************************)
(* Properties of copyCode                                                  *)
(***************************************************************************)

\* The process has pushed the branch of its current copyCode call.
Pushed(p) == \E e \in pushLog : e.by = p /\ e.branch = DestBranch(p)

\* C9: a run whose pair was propagated by another process between its first
\* and its final check pushes no branch and creates no pull request; every
\* push and every pull request creation follows a final copyExists call that
\* returned false.
C9_FinalCheckStopsDuplicate ==
  \A p \in Procs :
    /\ raceSeen[p] => (~Pushed(p) /\ cout[p] # "created")
    /\ (Pushed(p) \/ cout[p] = "created") => cfinal[p] = "false"

\* C10: while a pull request that copyCode created is open, copyExists of
\* its destination repo and source commit returns true.
C10_MarkerPresentAfterPullRequest ==
  \A r \in Repos : \A i \in DOMAIN pulls[r] :
    pulls[r][i].by \in Procs => CopyExists(r, pulls[r][i].hash)

\* The issues that one copyCode call has opened on a repo.
IssuesOpenedBy(call, r) == {i \in DOMAIN issues[r] : issues[r][i].by = call}

\* The issues.create requests of one copyCode call that are in flight.
RequestsOf(call, r) == {req \in issueReqs : req.repo = r /\ req.issue.by = call}

\* C14: when the copy-rule file of the destination repo is missing or
\* unparseable, copyCode opens one issue on that repo, makes no push and no
\* pull request, and returns normally.
C14_DefectiveYamlOpensOneIssue ==
  \A p \in Procs :
    cout[p] = "nocfg" =>
      /\ cpc[p] = "idle"
      /\ \A r \in Repos :
           Cardinality(IssuesOpenedBy(CallOf(p), r)) +
             Cardinality(RequestsOf(CallOf(p), r)) =
               IF r = cargs[p].destRepo THEN 1 ELSE 0
      /\ ~Pushed(p)
      /\ \A r \in Repos : \A i \in DOMAIN pulls[r] :
           pulls[r][i].head # DestBranch(p)

\* A call returned after a defective yaml and its issue is open on the repo.
C14_Witness ==
  \E p \in Procs :
    /\ cout[p] = "nocfg"
    /\ IssuesOpenedBy(CallOf(p), cargs[p].destRepo) # {}

\* The hash occurs in the text of a body.
Contains(body, hash) == ~body.isNull /\ (hash = EmptyHash \/ hash \in body.refs)

\* The body of one of the listed items contains the hash.
ListedWith(list, hash) ==
  \E i \in DOMAIN list : i <= PerPage /\ Contains(list[i].body, hash)

\* The pairs that copyExists can be asked about.
CheckedPairs == Repos \X (Commits \cup {EmptyHash})

\* C15: copyExists(destRepo, hash) returns true if and only if the commit
\* search has a hit, or the issue/pull-request search has an item, or the
\* body of a listed pull request or of a listed issue contains the hash.
C15_CopyExistsIffAnyQueryFinds ==
  \A x \in CheckedPairs :
    CopyExistsCall(Github, x[1], x[2]).returns <=>
      \/ x \in commitMsgs
      \/ x \in searchIndex
      \/ ListedWith(pulls[x[1]], x[2])
      \/ ListedWith(issues[x[1]], x[2])

\* A first check returned true while both searches find nothing of the pair
\* and only the listing of the pull requests finds the hash.
C15_Witness ==
  \E p \in Procs :
    LET x == <<cargs[p].destRepo, cargs[p].hash>>
    IN /\ cout[p] = "exists"
       /\ x \notin commitMsgs
       /\ x \notin searchIndex
       /\ ListedWith(pulls[x[1]], x[2])
       /\ ~ListedWith(issues[x[1]], x[2])

\* The first n requests of the fixed order.
FirstQueries(n) ==
  SubSeq(<<"search.commits", "search.issuesAndPullRequests", "pulls.list",
           "issues.list">>, 1, n)

\* C16: copyExists makes its requests in the order commit search,
\* issue/pull-request search, pull-request listing, issue listing, and makes
\* none after the first positive one.
C16_QueriesInOrderUntilPositive ==
  \A x \in CheckedPairs :
    LET call == CopyExistsCall(Github, x[1], x[2])
        n == Len(call.queries)
    IN /\ n \in 1..4
       /\ call.queries = FirstQueries(n)
       /\ \A i \in 1..(n - 1) : ~Positive(Github, call.queries[i], x[1], x[2])
       /\ n < 4 => Positive(Github, call.queries[n], x[1], x[2])

\* A first check returned true on a positive commit search, having made no
\* other request, while a listed pull request or issue mentions the hash too.
C16_Witness ==
  \E p \in Procs :
    LET x == <<cargs[p].destRepo, cargs[p].hash>>
    IN /\ cout[p] = "exists"
       /\ CopyExistsCall(Github, x[1], x[2]).queries = <<"search.commits">>
       /\ ListedWith(pulls[x[1]], x[2]) \/ ListedWith(issues[x[1]], x[2])

(***************************************************************************)
(* Properties of the lock-update pull requests                             *)
(***************************************************************************)

\* The open pull requests of a repo that update its lock file to the lock.
Outstanding(r, l) == {pr \in lockPulls[r] : pr.lock = l}

LastRecKey == MakeUpdateLockKey(lastRec.repo, lastRec.lock)

\* C18: recordPullRequestForUpdatingLock(repo, lock, id), called when a pull
\* request is recorded for the triple, returns the recorded id and leaves the
\* record unchanged.
C18_RecordKeepsFirstId ==
  (lastRec.called /\ lastRec.prev[LastRecKey] # NoPr) =>
    /\ lastRec.result = lastRec.prev[LastRecKey]
    /\ lockUpdatePrs = lastRec.prev

\* C19: when no pull request is recorded for (repo, lock),
\* recordPullRequestForUpdatingLock(repo, lock, id) returns id, a following
\* findPullRequestForUpdatingLock(repo, lock) returns id, and the find of
\* every other triple returns what it returned before.
C19_RecordThenFind ==
  (lastRec.called /\ lastRec.prev[LastRecKey] = NoPr) =>
    /\ lastRec.result = lastRec.id
    /\ FindPullRequestForUpdatingLock(lockUpdatePrs, lastRec.repo,
                                      lastRec.lock) = lastRec.id
    /\ \A r \in Repos, l \in OwlBotLocks :
         MakeUpdateLockKey(r, l) # LastRecKey =>
           FindPullRequestForUpdatingLock(lockUpdatePrs, r, l) =
             FindPullRequestForUpdatingLock(lastRec.prev, r, l)

\* Both writers found no recorded pull request for one triple while the
\* other was at work on it, and both have made their record call.
RaceOver ==
  /\ lraced
  /\ largs["w1"] = largs["w2"]
  /\ \A w \in Writers : lpc[w] = "idle" /\ lstage[w] = "record"

\* C20: of two writers that race to open a pull request for one triple, the
\* one whose record call loses returns the recorded id of the winner, and no
\* pull request of its own stays open beside the winner's.
C20_LoserReusesWinnersPullRequest ==
  RaceOver =>
    \E winner \in Writers : \E loser \in Writers \ {winner} :
      /\ lret[winner] = lnew[winner]
      /\ lret[loser] = lret[winner]
      /\ FindPullRequestForUpdatingLock(lockUpdatePrs, largs[winner].repo,
                                        largs[winner].lock) = lret[winner]
      /\ \A pr \in Outstanding(largs[winner].repo, largs[winner].lock) :
           PullRequestUrl(largs[winner].repo, pr.number) = lret[winner]

\* The pull request recorded for the triple of the call that starts in this
\* step.
RecordedForCall ==
  lockUpdatePrs[MakeUpdateLockKey(largs'[lcaller'].repo, largs'[lcaller'].lock)]

\* C21: createOnePullRequestForUpdatingLock, called when
\* findPullRequestForUpdatingLock returns an id, returns that id, opens no
\* pull request and writes nothing to the store.
C21_RecordedPullRequestIsReturned ==
  [][(lcalls' = lcalls + 1 /\ RecordedForCall # NoPr) =>
       /\ lpc'[lcaller'] = "idle"
       /\ lret'[lcaller'] = RecordedForCall
       /\ lockPulls' = lockPulls /\ prNumbers' = prNumbers
       /\ lockUpdatePrs' = lockUpdatePrs /\ yamls' = yamls]_vars

\* The last call was made for a triple with a recorded pull request and has
\* returned it without another step.
C21_Witness ==
  /\ lcaller \in Writers
  /\ lstage[lcaller] = "find" /\ lpc[lcaller] = "idle"
  /\ lret[lcaller] # NoPr
  /\ lret[lcaller] = lockUpdatePrs[MakeUpdateLockKey(largs[lcaller].repo,
                                                     largs[lcaller].lock)]

\* The stored lock of a repo is missing or has another digest than the
\* published one.
LockIsStale(r) ==
  \/ yamls[r].data.lock = <<>>
  \/ yamls[r].data.lock[1].docker.digest # lastPub.digest

\* The handler called createOnePullRequestForUpdatingLock for the repo.
Attempted(r) == \E call \in lastPub.calls : call.repo = r

\* C22: on publication of (image, digest) a lock-update pull request is
\* attempted for a repo if and only if findReposWithPostProcessor(image)
\* returned the repo and its stored lock is missing or has a digest other
\* than the published one, and every attempt is for the published lock.
C22_AttemptedIffStale ==
  lastPub.called =>
    /\ \A r \in Repos :
         Attempted(r) <=> (r \in lastPub.returned /\ LockIsStale(r))
    /\ \A call \in lastPub.calls :
         call.lock = OwlBotLock(lastPub.image, lastPub.digest)

\* A publication for which one returned repo is stale and was attempted and
\* another has the published digest.
C22_Witness ==
  /\ lastPub.called
  /\ \E r \in lastPub.returned : LockIsStale(r) /\ Attempted(r)
  /\ \E r \in lastPub.returned : ~LockIsStale(r)

(***************************************************************************)
(* Properties of findReposAffectedByFileChanges                            *)
(***************************************************************************)

\* The repo has a rule whose source matches one of the paths of the call.
HasMatchingRule(r) ==
  \E d \in DOMAIN fin.configs[r], k \in DOMAIN fin.paths :
    FullMatch(fin.configs[r][d].source, fin.paths[k])

\* How many times the repo is in the result.
TimesReturned(r) ==
  Cardinality({i \in DOMAIN fout.result : fout.result[i] = r})

\* C23: findReposAffectedByFileChanges(paths) returns each repo that has a
\* rule whose source pattern matches one of the paths once, and no other
\* repo.
C23_AffectedReposAreThoseWithMatchingRule ==
  fpc = 1 =>
    \A r \in Repos : TimesReturned(r) = IF HasMatchingRule(r) THEN 1 ELSE 0

(***************************************************************************)
(* Properties of the patterns                                              *)
(***************************************************************************)

\* C29: makePatternMatchAllSubdirs returns the pattern unchanged when it
\* ends with '/**', the pattern plus '*' when it ends with '/*', the pattern
\* plus '**' when it ends with '/', and the pattern plus '/**' otherwise;
\* every result ends with '/**', and applying it to its result changes
\* nothing.
C29_PatternEndsWithGlobstar ==
  /\ fpc >= 1 =>
       /\ EndsWith(fin, <<"/", "*", "*">>) => fout[1] = fin
       /\ EndsWith(fin, <<"/", "*">>) => fout[1] = fin \o <<"*">>
       /\ EndsWith(fin, <<"/">>) => fout[1] = fin \o <<"*", "*">>
       /\ (\A suffix \in {<<"/", "*", "*">>, <<"/", "*">>, <<"/">>} :
             ~EndsWith(fin, suffix))
            => fout[1] = fin \o <<"/", "*", "*">>
       /\ EndsWith(fout[1], <<"/", "*", "*">>)
  /\ fpc = 2 => fout[2] = fout[1]

\* A pattern that ends with '/*' was normalized, and its result again.
C29_Witness ==
  /\ fpc = 2
  /\ EndsWith(fin, <<"/", "*">>)
  /\ fout[1] # fin

RECURSIVE Names_(_, _)
\* The path parts are named by the pattern parts: a '*' stands for one name,
\* a '**' for any number of names, every other part for itself.
Names_(pattern, file) ==
  IF pattern = <<>> THEN file = <<>>
  ELSE IF Head(pattern) = <<"*", "*">>
    THEN \E k \in 0..Len(file) :
           Names_(Tail(pattern), SubSeq(file, k + 1, Len(file)))
    ELSE /\ file # <<>>
         /\ Head(pattern) = <<"*">> \/ Head(pattern) = Head(file)
         /\ Head(pattern) = <<"*">> => Head(file) # <<>>
         /\ Names_(Tail(pattern), Tail(file))

\* The parts of a base pattern, without the empty part after a last slash.
BaseParts ==
  LET parts == SlashSplit(fin.base)
  IN IF Len(parts) > 1 /\ parts[Len(parts)] = <<>>
       THEN SubSeq(parts, 1, Len(parts) - 1) ELSE parts

\* The candidate path is a directory that the base pattern names.
IsNamedDir == Names_(BaseParts, SlashSplit(fin.path))

\* The candidate path is beneath a directory that the base pattern names.
IsBeneath ==
  LET file == SlashSplit(fin.path)
  IN \E n \in 1..(Len(file) - 1) : Names_(BaseParts, SubSeq(file, 1, n))

Steps == CopySteps(fin.rules, SourceTree, fin.dirItself)

\* The rules whose dest is the repository root, '' or '/'.
RootRules == {i \in DOMAIN fin.rules : Parts(fin.rules[i].dest) = <<>>}

\* The entries of the destination that the call removed before it copied.
Removed ==
  LET deadPaths == DeadPaths(fin.rules, 1, fin.dest, fin.dirItself)
  IN {k \in DOMAIN fin.dest : \E top \in deadPaths : IsPrefix(top, k)}

\* C25: after copyDirs has returned, every file under the dest of a rule
\* whose dest is not the root is a copy of a source file that some rule
\* matches: what was there before the call is gone.
C25_EveryDestIsWiped ==
  (fpc >= 1 /\ ~fout[1].threw) =>
    LET steps == Steps
    IN \A i \in DOMAIN fin.rules \ RootRules :
         \A k \in DOMAIN fout[1].tree :
           (IsPrefix(Parts(fin.rules[i].dest), k) /\ fout[1].tree[k] # "dir")
             => \E j \in DOMAIN steps :
                  /\ steps[j].to = k
                  /\ SourceTree[steps[j].from] = fout[1].tree[k]

\* C26: when every rule has the root as its dest, the call removes only
\* entries at or beneath a root entry whose name matches the basename of
\* the source pattern of a rule, and never the root itself.
C26_RootRuleRemovesOnlyItsBasename ==
  (fpc >= 1 /\ RootRules = DOMAIN fin.rules) =>
    LET removed == Removed
    IN /\ <<>> \notin removed
       /\ \A k \in removed :
            \E i \in RootRules :
              PartMatch(PathParse(fin.rules[i].source).base, k[1])

\* C27: the tree that a second call leaves, with the same source tree and
\* rules, is the tree that the first call left.
C27_SecondRunChangesNothing ==
  fpc = 2 => fout[2].tree = fout[1].tree

\* Two calls were made with rules that changed a destination which had
\* content.
C27_Witness ==
  /\ fpc = 2
  /\ Len(fin.rules) = 2
  /\ DOMAIN fin.dest # {}
  /\ fout[1].tree # fin.dest
  /\ ~fout[1].threw
  /\ ~fout[2].threw

IsLastTo(steps, j) == \A l \in DOMAIN steps : l > j => steps[l].to # steps[j].to

PathNames == Parts(fin.path)

PrefixParts == Parts(fin.prefix)

\* The lengths of the ancestor directories of the path that the prefix
\* matches as a full path.
MatchingAncestors ==
  {n \in 1..(Len(PathNames) - 1) :
     Names_(PrefixParts, SubSeq(PathNames, 1, n))}

\* C31: stripPrefix returns the path without its leading separator when the
\* prefix is absent, '' or '/', the basename when the whole path matches
\* the prefix, and otherwise the segments below the deepest ancestor
\* directory that matches the prefix.
C31_StripPrefixResult ==
  fpc = 1 =>
    LET names == PathNames
        deepest == CHOOSE n \in MatchingAncestors :
                     \A m \in MatchingAncestors : m <= n
    IN /\ PrefixParts = <<>> => fout[1] = JoinParts(names)
       /\ (PrefixParts # <<>> /\ Names_(PrefixParts, names)) =>
            fout[1] = names[Len(names)]
       /\ (/\ PrefixParts # <<>>
           /\ ~Names_(PrefixParts, names)
           /\ MatchingAncestors # {}) =>
            fout[1] = JoinParts(SubSeq(names, deepest + 1, Len(names)))

\* C32: when neither the path nor any of its ancestor directories matches
\* the prefix as a full path, stripPrefix returns what it returns for an
\* undefined prefix, the full relative path.
C32_MismatchedPrefixStripsNothing ==
  (/\ fpc = 1
   /\ ~Names_(PrefixParts, PathNames)
   /\ MatchingAncestors = {}) =>
    /\ fout[1] = StripPrefix(<<>>, fin.path, fin.dirItself)
    /\ fout[1] = JoinParts(PathNames)

(***************************************************************************)
(* Properties of the scan with no work                                     *)
(***************************************************************************)

\* No examined commit affects a repo, or every affected repo has a marker
\* of the commit.
NoWork ==
  \A i \in DOMAIN examined : examined[i].repos \subseteq examined[i].exists

\* C33: when no examined commit affects a repo or every affected (repo,
\* commit) has a marker, the scan applies no Todo, creates no pull request
\* and resolves to 0.
C33_NoWorkReportsZero ==
  (scanPc = "done" /\ NoWork) =>
    /\ applied = <<>>
    /\ pulls = atStart[1]
    /\ ScanResolvesTo = <<0>>

(***************************************************************************)
(* Properties of maybeCreatePullRequestForLockUpdate                       *)
(***************************************************************************)

\* The place of a call in the log of a run, 0 when it was not made.
MadeAt(step) ==
  LET log == fout[1].log
  IN IF \E i \in DOMAIN log : log[i] = step
       THEN CHOOSE i \in DOMAIN log : log[i] = step
       ELSE 0

\* C34: a pull request is created if and only if the working tree has
\* uncommitted changes.  With a clean tree no commit is amended, no token is
\* requested and no pull request is created; with changes a call that
\* returns has amended the last commit and then created exactly one pull
\* request, from that commit.  A call that fails creates at most that one.
C34_PullRequestIffChanges ==
  fpc = 1 =>
    LET out == fout[1]
    IN /\ fin.changed = {} =>
            /\ MadeAt("git commit --amend") = 0
            /\ MadeAt("getGitHubShortLivedAccessToken") = 0
            /\ out.pulls = <<>>
       /\ (fin.changed # {} /\ ~out.threw) =>
            /\ MadeAt("git commit --amend") > 0
            /\ MadeAt("git commit --amend")
                 < MadeAt("createPullRequestFromLastCommit")
            /\ Len(out.pulls) = 1
            /\ out.pulls[1].commit = {"lock"} \cup fin.changed
       /\ Len(out.pulls) <= 1
       /\ out.pulls # <<>> =>
            fin.changed # {} /\ MadeAt("git commit --amend") > 0

\* A call in a tree with one new file has returned, with its pull request.
C34_Witness ==
  /\ fpc = 1
  /\ ~fout[1].threw
  /\ fin.changed = {"x.txt"}
  /\ Len(fout[1].pulls) = 1

(***************************************************************************)
(* Properties of the commits examined                                      *)
(***************************************************************************)

\* The newest cloneDepth commit hashes of the history, newest first.
NewestHashes ==
  [i \in 1..Min(cloneDepth, HistoryLen) |-> HistoryLen + 1 - i]

ExaminedHashes == [i \in DOMAIN examined |-> examined[i].commitHash]

\* C35: the commits examined are the newest cloneDepth commit hashes of the
\* history, newest first and each once: a leading part of them while the
\* loop runs or when it took its break, all of them when it ran to its end;
\* nothing that is not a commit hash of the history is examined.
C35_ExaminesTheNewestHashes ==
  LET hashes == ExaminedHashes
  IN /\ Len(hashes) <= Len(NewestHashes)
     /\ \A i \in DOMAIN hashes : hashes[i] \in Commits
     /\ hashes = SubSeq(NewestHashes, 1, Min(Len(hashes), Len(NewestHashes)))
     /\ (scanPc \in {"applying", "done"} /\ ~stopped) => hashes = NewestHashes

(***************************************************************************)
(* Properties of refreshConfigs                                            *)
(***************************************************************************)

\* The configs that writer w read are those of the head commit and the
\* default branch that it sees.
UpToDateWith(w, commitHash, defaultBranch) ==
  /\ wcfg[w].exists
  /\ wcfg[w].data.commithash = commitHash
  /\ wcfg[w].data.branchName = defaultBranch

WithStoredId == {repo \in DOMAIN fin.stored : fin.stored[repo] # 0}

Deferred == DOMAIN fin.stored \ WithStoredId

\* The id known by the end of the listing: the one passed in, or else the
\* one stored for the first listed repo that has one; 0 when there is none.
KnownId ==
  IF fin.orgInstallationId # 0 THEN fin.orgInstallationId
  ELSE IF WithStoredId = {} THEN 0
  ELSE fin.stored[CHOOSE repo \in WithStoredId :
                    \A other \in WithStoredId : repo <= other]

\* The refreshConfigs calls of the scan for a repo.
RefreshesOf(repo) ==
  {i \in DOMAIN fout[1].log : fout[1].log[i].repo = repo}

\* C37: in a scan that returns, when an installation id is known by the end
\* of the listing every listed repo is refreshed exactly once, a repo with a
\* stored id during the listing with its own id and the others afterwards
\* with the org id; when none is known no deferred repo is refreshed.  In a
\* scan that fails no repo is refreshed twice or with another id.
C37_EveryRepoRefreshedOnce ==
  fpc = 1 =>
    LET log == fout[1].log
    IN /\ \A repo \in DOMAIN fin.stored : Cardinality(RefreshesOf(repo)) <= 1
       /\ \A i \in DOMAIN log :
            IF log[i].repo \in WithStoredId
              THEN /\ log[i].installationId = fin.stored[log[i].repo]
                   /\ log[i].when = "now"
              ELSE /\ log[i].installationId = KnownId
                   /\ KnownId # 0
                   /\ log[i].when = "later"
       /\ \A i, j \in DOMAIN log :
            (log[i].when = "now" /\ log[j].when = "later") => i < j
       /\ (~fout[1].threw /\ KnownId # 0) =>
            \A repo \in DOMAIN fin.stored : Cardinality(RefreshesOf(repo)) = 1
       /\ KnownId = 0 => log = <<>>

\* A scan with no id passed in has returned after it refreshed a repo with
\* the id stored for another, listed after it.
C37_Witness ==
  /\ fpc = 1
  /\ ~fout[1].threw
  /\ fin.orgInstallationId = 0
  /\ fin.stored[1] = 0
  /\ fin.stored[2] = 7
  /\ \E i \in DOMAIN fout[1].log :
       /\ fout[1].log[i].repo = 1
       /\ fout[1].log[i].installationId = 7

(***************************************************************************)
(* Properties of onPostProcessorPublished                                  *)
(***************************************************************************)

\* C38: when onPostProcessorPublished has resolved, the lock-update work of
\* every stale repo has finished: its createOnePullRequestForUpdatingLock
\* call is not waiting or under way, and a pull request is on record for
\* the repo and the lock.
C38_ResolvedMeansFinished ==
  lastPub.called =>
    \A call \in lastPub.calls :
      /\ call \notin pubCalls
      /\ \A w \in Writers : lpc[w] # "idle" => largs[w] # call
      /\ FindPullRequestForUpdatingLock(lockUpdatePrs, call.repo, call.lock)
           # NoPr

(***************************************************************************)
(* Properties of the push of copyCode                                      *)
(***************************************************************************)

\* path.join(workDir, 'dest') of a copyCode run.
DestDir(by) == <<"workDir", by, "dest">>

\* C39: copyCode pushes its owl-bot branch from the destination checkout to
\* the destination repository before it creates the pull request; the pull
\* request is in the destination repository, with that branch as head and
\* the default branch as base; nothing is pushed to the source repository.
C39_PushesToDestBeforePull ==
  /\ \A push \in pushLog :
       /\ push.remote # GoogleapisGen
       /\ push.by \in Procs =>
            /\ push.cwd = DestDir(push.by)
            /\ push.remote = cargs[push.by].destRepo
  /\ \A r \in Repos : \A i \in DOMAIN pulls[r] :
       pulls[r][i].by \in Procs =>
         /\ pulls[r][i].base = "main"
         /\ \E push \in pushLog :
              /\ push.by = pulls[r][i].by
              /\ push.branch = pulls[r][i].head
              /\ push.remote = r

====
